---- MODULE Spec2Model ----
(***************************************************************************)
(* Crowd analytics and capacity planning engine of the Chin backend:       *)
(* CrowdAnalytics (backend/app/services/analytics.py) and                  *)
(* HospitalAnalytics (backend/app/services/hospital_analytics.py).         *)
(*                                                                         *)
(* One CrowdAnalytics instance is constructed with a configuration and is  *)
(* then called by a client, one analysis operation at a time.  Every       *)
(* operation is a function of its arguments and the configuration; it is   *)
(* modelled as an operator that follows the code statement by statement    *)
(* and an action that applies it to inputs drawn from bounded sets.        *)
(*                                                                         *)
(* Numbers.  Person counts, timestamps, rates and agent counts are         *)
(* integers.  A Python float that is a quotient of integers is kept as an  *)
(* exact fraction [num, den] with den > 0 and compared by                  *)
(* cross-multiplication.  A value rounded with round(x, 1) is kept as an   *)
(* integer number of tenths.                                               *)
(***************************************************************************)
EXTENDS Integers, Sequences, FiniteSets, TLC

\* ------------------------------------------------------------------ bounds

\* Longest enumerated occupancy series.
MaxLen == 5

\* Largest enumerated person count of one sample.
MaxCount == 2

\* ------------------------------------------------------ generic helpers

Min(a, b) == IF a <= b THEN a ELSE b

Max(a, b) == IF a >= b THEN a ELSE b

RECURSIVE SumSeq(_)
SumSeq(s) == IF s = <<>> THEN 0 ELSE s[1] + SumSeq(Tail(s))

RECURSIVE MaxSeq(_)
MaxSeq(s) == IF Len(s) = 1 THEN s[1] ELSE Max(s[1], MaxSeq(Tail(s)))

RECURSIVE MinSeq(_)
MinSeq(s) == IF Len(s) = 1 THEN s[1] ELSE Min(s[1], MinSeq(Tail(s)))

\* np.mean of a non-empty list of integers, as an exact fraction.
Mean(s) == [num |-> SumSeq(s), den |-> Len(s)]

\* round(x, ndigits) of the fraction x as an integer number of 1/scale
\* (scale = 10^ndigits); ties go to the even neighbour.
RoundScaled(x, scale) ==
    LET t == scale * x.num
        q == t \div x.den
        r == t % x.den
    IN  IF 2 * r < x.den THEN q
        ELSE IF 2 * r > x.den THEN q + 1
        ELSE IF q % 2 = 0 THEN q ELSE q + 1

\* round(x, 1), in tenths.
Round1(x) == RoundScaled(x, 10)

\* round(x, 3), in thousandths.
Round3(x) == RoundScaled(x, 1000)

RECURSIVE GCD(_, _)
GCD(a, b) == IF b = 0 THEN a ELSE GCD(b, a % b)

Abs(a) == IF a < 0 THEN 0 - a ELSE a

\* The fraction n / d (d # 0) in lowest terms with a positive denominator.
Frac(n, d) ==
    LET g == GCD(Abs(n), Abs(d))
        s == IF d < 0 THEN 0 - 1 ELSE 1
    IN  [num |-> (s * n) \div g, den |-> (s * d) \div g]

FromInt(n) == [num |-> n, den |-> 1]

\* x < y and x <= y, compared over the least common denominator
FLt(x, y) ==
    LET g == GCD(x.den, y.den)
    IN  x.num * (y.den \div g) < y.num * (x.den \div g)

FLe(x, y) ==
    LET g == GCD(x.den, y.den)
    IN  x.num * (y.den \div g) <= y.num * (x.den \div g)

\* x + y over the least common denominator (keeps the integers small)
FAdd(x, y) ==
    LET g == GCD(x.den, y.den)
    IN  Frac(x.num * (y.den \div g) + y.num * (x.den \div g), (x.den \div g) * y.den)

FSub(x, y) == FAdd(x, [num |-> 0 - y.num, den |-> y.den])

\* x * y, cancelling common factors before multiplying
FMul(x, y) ==
    LET g1 == GCD(Abs(x.num), y.den)
        g2 == GCD(Abs(y.num), x.den)
    IN  Frac((x.num \div g1) * (y.num \div g2), (x.den \div g2) * (y.den \div g1))

\* x / y for y # 0
FDiv(x, y) ==
    FMul(x, IF y.num < 0 THEN [num |-> 0 - y.den, den |-> 0 - y.num]
            ELSE [num |-> y.den, den |-> y.num])

FMin(x, y) == IF FLe(x, y) THEN x ELSE y

FMax(x, y) == IF FLe(y, x) THEN x ELSE y

\* CrowdAnalytics._format_time: seconds -> "MM:SS", kept as its two fields.
FormatTime(seconds) == [minutes |-> seconds \div 60, secs |-> seconds % 60]

\* [d.get("person_count", 0) for d in detections]
PersonCounts(dets) == [i \in 1..Len(dets) |-> dets[i].person_count]

\* ------------------------------------------------- detect_bottlenecks

\* current_bottleneck = None
None == [none |-> TRUE]

\* Variant: the sample is compared with the average, not with the threshold.
IsBottleneckNoMultiplier(person_count, avg_count, mult) ==
    person_count * avg_count.den >= avg_count.num

\* is_bottleneck = person_count >= avg_count * multiplier
IsBottleneck(person_count, avg_count, mult) ==
    person_count * avg_count.den * mult.den >= avg_count.num * mult.num

\* Variant: the grade cut-offs are 2.5 / 2.0 / 1.5 instead of 2.0 / 1.75 / 1.5.
SeverityOfShifted(peak_count, avg_count) ==
    LET p == IF avg_count.num > 0 THEN peak_count * avg_count.den ELSE 1
        a == IF avg_count.num > 0 THEN avg_count.num ELSE 1
    IN  IF 2 * p >= 5 * a THEN [severity |-> "Critical", severity_score |-> 5]
        ELSE IF p >= 2 * a THEN [severity |-> "High", severity_score |-> 4]
        ELSE IF 2 * p >= 3 * a THEN [severity |-> "Moderate", severity_score |-> 3]
        ELSE [severity |-> "Low", severity_score |-> 2]

\* Variant: the two middle grades are exchanged (ratio >= 1.75 is graded
\* Moderate/3 and ratio >= 1.5 is graded High/4).
SeverityOfExchanged(peak_count, avg_count) ==
    LET p == IF avg_count.num > 0 THEN peak_count * avg_count.den ELSE 1
        a == IF avg_count.num > 0 THEN avg_count.num ELSE 1
    IN  IF p >= 2 * a THEN [severity |-> "Critical", severity_score |-> 5]
        ELSE IF 4 * p >= 7 * a THEN [severity |-> "Moderate", severity_score |-> 3]
        ELSE IF 2 * p >= 3 * a THEN [severity |-> "High", severity_score |-> 4]
        ELSE [severity |-> "Low", severity_score |-> 2]

\* severity_ratio = peak / avg_count if avg_count > 0 else 1, and its grade.
SeverityOf(peak_count, avg_count) ==
    LET p == IF avg_count.num > 0 THEN peak_count * avg_count.den ELSE 1
        a == IF avg_count.num > 0 THEN avg_count.num ELSE 1
    IN  IF p >= 2 * a THEN [severity |-> "Critical", severity_score |-> 5]
        ELSE IF 4 * p >= 7 * a THEN [severity |-> "High", severity_score |-> 4]
        ELSE IF 2 * p >= 3 * a THEN [severity |-> "Moderate", severity_score |-> 3]
        ELSE [severity |-> "Low", severity_score |-> 2]

\* Variant: the duration is taken as start minus end.
PeriodRecordReversed(cb, avg_count) ==
    LET sev == SeverityOf(cb.peak_count, avg_count)
    IN  [start_time |-> FormatTime(cb.start_timestamp),
         end_time |-> FormatTime(cb.end_timestamp),
         duration_seconds |-> 10 * (cb.start_timestamp - cb.end_timestamp),
         peak_person_count |-> cb.peak_count,
         average_person_count |-> Round1(Mean(cb.person_counts)),
         severity |-> sev.severity,
         severity_score |-> sev.severity_score,
         frame_count |-> cb.frame_count]

\* The dict appended to bottleneck_periods for an accumulated period.
PeriodRecord(cb, avg_count) ==
    LET sev == SeverityOf(cb.peak_count, avg_count)
    IN  [start_time |-> FormatTime(cb.start_timestamp),
         end_time |-> FormatTime(cb.end_timestamp),
         duration_seconds |-> 10 * (cb.end_timestamp - cb.start_timestamp),
         peak_person_count |-> cb.peak_count,
         average_person_count |-> Round1(Mean(cb.person_counts)),
         severity |-> sev.severity,
         severity_score |-> sev.severity_score,
         frame_count |-> cb.frame_count]

\* Start new bottleneck period.
StartBottleneck(person_count, frame_data) ==
    [start_frame |-> frame_data.frame_number,
     start_timestamp |-> frame_data.timestamp,
     end_frame |-> frame_data.frame_number,
     end_timestamp |-> frame_data.timestamp,
     peak_count |-> person_count,
     frame_count |-> 1,
     person_counts |-> <<person_count>>]

\* Variant: the peak is overwritten by the latest count instead of the maximum.
ContinueBottleneckLastPeak(cb, person_count, frame_data) ==
    [cb EXCEPT !.end_frame = frame_data.frame_number,
               !.end_timestamp = frame_data.timestamp,
               !.peak_count = person_count,
               !.frame_count = cb.frame_count + 1,
               !.person_counts = Append(cb.person_counts, person_count)]

\* Continue current bottleneck.
ContinueBottleneck(cb, person_count, frame_data) ==
    [cb EXCEPT !.end_frame = frame_data.frame_number,
               !.end_timestamp = frame_data.timestamp,
               !.peak_count = Max(cb.peak_count, person_count),
               !.frame_count = cb.frame_count + 1,
               !.person_counts = Append(cb.person_counts, person_count)]

\* End current bottleneck on a below-threshold sample: only add it if the
\* duration threshold is met.
CloseBottleneck(periods, cb, avg_count, min_duration) ==
    IF cb.frame_count >= min_duration
    THEN Append(periods, PeriodRecord(cb, avg_count))
    ELSE periods

\* Variant: the period open at the end of the series is added without the
\* duration gate.
FlushBottleneckNoGate(periods, cb, avg_count, min_duration) ==
    IF cb # None
    THEN Append(periods, PeriodRecord(cb, avg_count))
    ELSE periods

\* Handle bottleneck that extends to end of video.
FlushBottleneck(periods, cb, avg_count, min_duration) ==
    IF cb # None /\ cb.frame_count >= min_duration
    THEN Append(periods, PeriodRecord(cb, avg_count))
    ELSE periods

\* One iteration of the loop over zip(detections, frames_data).
BottleneckStep(acc, detection, frame_data, avg_count, cfg) ==
    LET person_count == detection.person_count
        cb == acc.current_bottleneck
    IN  IF IsBottleneck(person_count, avg_count, cfg.bottleneck_threshold_multiplier)
        THEN [acc EXCEPT !.current_bottleneck =
                  IF cb = None
                  THEN StartBottleneck(person_count, frame_data)
                  ELSE ContinueBottleneck(cb, person_count, frame_data)]
        ELSE IF cb # None
             THEN [current_bottleneck |-> None,
                   bottleneck_periods |->
                       CloseBottleneck(acc.bottleneck_periods, cb, avg_count,
                                       cfg.min_bottleneck_duration)]
             ELSE acc

\* The loop: samples 1..k of zip(detections, frames_data) have been walked.
RECURSIVE BottleneckLoop(_, _, _, _, _)
BottleneckLoop(k, dets, frames, avg_count, cfg) ==
    IF k = 0
    THEN [current_bottleneck |-> None, bottleneck_periods |-> <<>>]
    ELSE BottleneckStep(BottleneckLoop(k - 1, dets, frames, avg_count, cfg),
                        dets[k], frames[k], avg_count, cfg)

RECURSIVE SumDurations(_)
SumDurations(periods) ==
    IF periods = <<>> THEN 0
    ELSE periods[1].duration_seconds + SumDurations(Tail(periods))

\* CrowdAnalytics.detect_bottlenecks
DetectBottlenecks(cfg, dets, frames) ==
    IF dets = <<>> \/ frames = <<>>
    THEN [bottlenecks_detected |-> 0,
          bottleneck_periods |-> <<>>,
          total_bottleneck_duration |-> 0]
    ELSE LET person_counts == PersonCounts(dets)
             avg_count == Mean(person_counts)
             max_count == MaxSeq(person_counts)
             threshold == [num |-> avg_count.num * cfg.bottleneck_threshold_multiplier.num,
                           den |-> avg_count.den * cfg.bottleneck_threshold_multiplier.den]
             acc == BottleneckLoop(Min(Len(dets), Len(frames)), dets, frames,
                                   avg_count, cfg)
             periods == FlushBottleneck(acc.bottleneck_periods, acc.current_bottleneck,
                                        avg_count, cfg.min_bottleneck_duration)
         IN  [bottlenecks_detected |-> Len(periods),
              bottleneck_periods |-> periods,
              total_bottleneck_duration_seconds |-> SumDurations(periods),
              threshold_used |-> Round1(threshold),
              average_person_count |-> Round1(avg_count),
              max_person_count |-> max_count]

\* ------------------------------------------- calculate_crowd_density

\* Variant: the tier tests use <= , so a density at a breakpoint stays in the
\* lower tier.
CalculateCrowdDensityLowerTier(person_count, area_sqm) ==
    LET density == IF area_sqm > 0 THEN Frac(person_count, area_sqm) ELSE FromInt(0)
        tier == IF FLe(density, Frac(1, 10)) THEN [level |-> "Very Low", severity |-> 1]
                ELSE IF FLe(density, Frac(2, 10)) THEN [level |-> "Low", severity |-> 2]
                ELSE IF FLe(density, Frac(4, 10)) THEN [level |-> "Moderate", severity |-> 3]
                ELSE IF FLe(density, Frac(6, 10)) THEN [level |-> "High", severity |-> 4]
                ELSE [level |-> "Very High", severity |-> 5]
    IN  [person_count |-> person_count,
         area_sqm |-> area_sqm,
         density_per_sqm |-> Round3(density),
         density_level |-> tier.level,
         severity_score |-> tier.severity]

\* CrowdAnalytics.calculate_crowd_density
CalculateCrowdDensity(person_count, area_sqm) ==
    LET density == IF area_sqm > 0 THEN Frac(person_count, area_sqm) ELSE FromInt(0)
        tier == IF FLt(density, Frac(1, 10)) THEN [level |-> "Very Low", severity |-> 1]
                ELSE IF FLt(density, Frac(2, 10)) THEN [level |-> "Low", severity |-> 2]
                ELSE IF FLt(density, Frac(4, 10)) THEN [level |-> "Moderate", severity |-> 3]
                ELSE IF FLt(density, Frac(6, 10)) THEN [level |-> "High", severity |-> 4]
                ELSE [level |-> "Very High", severity |-> 5]
    IN  [person_count |-> person_count,
         area_sqm |-> area_sqm,
         density_per_sqm |-> Round3(density),
         density_level |-> tier.level,
         severity_score |-> tier.severity]

\* ----------------------------------------- create_visualization_data

\* The dict appended to intervals for the samples gathered in interval_data.
IntervalRecord(current_interval_start, interval_data) ==
    LET counts == [i \in 1..Len(interval_data) |-> interval_data[i].count]
    IN  [time |-> FormatTime(current_interval_start),
         timestamp |-> current_interval_start,
         average |-> Round1(Mean(counts)),
         min |-> MinSeq(counts),
         max |-> MaxSeq(counts),
         samples |-> Len(interval_data)]

\* Variant: a new interval starts one interval after the previous one.
VisualizationStepAdvancing(acc, detection, frame_data, interval_seconds) ==
    LET timestamp == frame_data.timestamp
        sample == [timestamp |-> timestamp, count |-> detection.person_count]
    IN  IF timestamp >= acc.current_interval_start + interval_seconds
        THEN [intervals |->
                  IF acc.interval_data # <<>>
                  THEN Append(acc.intervals,
                              IntervalRecord(acc.current_interval_start, acc.interval_data))
                  ELSE acc.intervals,
              current_interval_start |-> acc.current_interval_start + interval_seconds,
              interval_data |-> <<sample>>]
        ELSE [acc EXCEPT !.interval_data = Append(acc.interval_data, sample)]

\* One iteration of the loop over zip(detections, frames_data).
VisualizationStep(acc, detection, frame_data, interval_seconds) ==
    LET timestamp == frame_data.timestamp
        sample == [timestamp |-> timestamp, count |-> detection.person_count]
    IN  IF timestamp >= acc.current_interval_start + interval_seconds
        THEN [intervals |->
                  IF acc.interval_data # <<>>
                  THEN Append(acc.intervals,
                              IntervalRecord(acc.current_interval_start, acc.interval_data))
                  ELSE acc.intervals,
              current_interval_start |-> (timestamp \div interval_seconds) * interval_seconds,
              interval_data |-> <<sample>>]
        ELSE [acc EXCEPT !.interval_data = Append(acc.interval_data, sample)]

RECURSIVE VisualizationLoop(_, _, _, _)
VisualizationLoop(k, dets, frames, interval_seconds) ==
    IF k = 0
    THEN [intervals |-> <<>>, current_interval_start |-> 0, interval_data |-> <<>>]
    ELSE VisualizationStep(VisualizationLoop(k - 1, dets, frames, interval_seconds),
                           dets[k], frames[k], interval_seconds)

\* Variant: the samples gathered after the last boundary are not flushed.
FlushIntervalDropped(acc) == acc.intervals

\* Add last interval.
FlushInterval(acc) ==
    IF acc.interval_data # <<>>
    THEN Append(acc.intervals, IntervalRecord(acc.current_interval_start, acc.interval_data))
    ELSE acc.intervals

\* CrowdAnalytics.create_visualization_data (std_deviation, a square root, is
\* left out of the summary).
CreateVisualizationData(dets, frames, interval_seconds) ==
    IF dets = <<>> \/ frames = <<>>
    THEN [chart_data |-> <<>>, summary |-> <<>>]
    ELSE LET acc == VisualizationLoop(Min(Len(dets), Len(frames)), dets, frames,
                                      interval_seconds)
             intervals == FlushInterval(acc)
             all_counts == PersonCounts(dets)
         IN  [chart_data |-> intervals,
              interval_seconds |-> interval_seconds,
              total_intervals |-> Len(intervals),
              summary |-> [overall_average |-> Round1(Mean(all_counts)),
                           overall_min |-> MinSeq(all_counts),
                           overall_max |-> MaxSeq(all_counts),
                           total_samples |-> Len(all_counts)]]

\* ------------------------------------------------- erlang_c_formula

RECURSIVE Power(_, _)
Power(b, n) == IF n = 0 THEN 1 ELSE b * Power(b, n - 1)

RECURSIVE Factorial(_)
Factorial(n) == IF n <= 1 THEN 1 ELSE n * Factorial(n - 1)

\* (intensity ** n) / factorial(n)
ErlangTerm(intensity, n) ==
    Frac(Power(intensity.num, n), Power(intensity.den, n) * Factorial(n))

RECURSIVE ErlangSum(_, _)
ErlangSum(intensity, n) ==
    IF n = 0 THEN ErlangTerm(intensity, 0)
    ELSE FAdd(ErlangSum(intensity, n - 1), ErlangTerm(intensity, n))

\* The rates are doubles, written here as the rationals they stand for. The
\* double quotient arrival_rate / service_rate is either at the quotient of
\* the rationals or one rounding step below it.
RECURSIVE PowerOfTwo(_)
PowerOfTwo(d) == d = 1 \/ (d % 2 = 0 /\ PowerOfTwo(d \div 2))

\* A rational with a power-of-two denominator is a double. The division of
\* two doubles whose quotient is a double is exact; any other division is
\* rounded at or below the quotient.
RoundingsOf(arrival_rate, service_rate) ==
    IF service_rate.num <= 0
    THEN {"at"}
    ELSE IF /\ PowerOfTwo(arrival_rate.den)
            /\ PowerOfTwo(service_rate.den)
            /\ PowerOfTwo(FDiv(arrival_rate, service_rate).den)
         THEN {"at"}
         ELSE {"at", "below"}

\* intensity = arrival_rate / service_rate, in double arithmetic.
FloatQuotient(arrival_rate, service_rate, rounding) ==
    LET quotient == FDiv(arrival_rate, service_rate)
    IN  [num |-> quotient.num, den |-> quotient.den, below |-> rounding = "below"]

\* Variant: the overload test is intensity > num_agents.
OverloadedStrict(intensity, num_agents) == FLt(FromInt(num_agents), intensity)

\* if intensity >= num_agents: the system is overloaded. A quotient rounded
\* below an integer is not >= that integer.
Overloaded(intensity, num_agents) ==
    \/ FLt(FromInt(num_agents), intensity)
    \/ FLe(FromInt(num_agents), intensity) /\ ~intensity.below

\* Variant: the clamp is written max(min(erlang_c, 0.0), 1.0).
ErlangFormulaSwappedClamp(intensity, num_agents) ==
    LET erlang_b_numerator == ErlangTerm(intensity, num_agents)
        erlang_b_sum == ErlangSum(intensity, num_agents)
        erlang_c ==
            FDiv(erlang_b_numerator,
                 FAdd(erlang_b_sum,
                      FMul(erlang_b_numerator, FSub(FromInt(num_agents), intensity))))
    IN  FMax(FMin(erlang_c, FromInt(0)), FromInt(1))

\* The Erlang C expression and its clamp, min(max(erlang_c, 0.0), 1.0).
ErlangFormula(intensity, num_agents) ==
    LET erlang_b_numerator == ErlangTerm(intensity, num_agents)
        erlang_b_sum == ErlangSum(intensity, num_agents)
        erlang_c ==
            FDiv(erlang_b_numerator,
                 FAdd(erlang_b_sum,
                      FMul(erlang_b_numerator, FSub(FromInt(num_agents), intensity))))
    IN  FMin(FMax(erlang_c, FromInt(0)), FromInt(1))

\* HospitalAnalytics.erlang_c_formula; formula_evaluated records whether the
\* factorial/power expressions were reached.
ErlangC(arrival_rate, service_rate, num_agents, rounding) ==
    IF num_agents <= 0 \/ service_rate.num <= 0
    THEN [value |-> FromInt(1), formula_evaluated |-> FALSE]
    ELSE LET intensity == FloatQuotient(arrival_rate, service_rate, rounding)
         IN  IF Overloaded(intensity, num_agents)
             THEN [value |-> FromInt(1), formula_evaluated |-> FALSE]
             ELSE [value |-> ErlangFormula(intensity, num_agents),
                   formula_evaluated |-> TRUE]

\* ------------------------------------------ _calculate_capacity_score

\* Variant: the sum of the two components is returned without the final clamp.
CalculateCapacityScoreNoClamp(recommended_nurses, estimated_beds_needed, available_nurses, available_beds) ==
    LET staffing_component ==
            FMin(FromInt(50),
                 FMul(Frac(available_nurses, Max(1, recommended_nurses)), FromInt(50)))
        bed_component ==
            IF estimated_beds_needed > 0
            THEN FMin(FromInt(50),
                      FMul(Frac(available_beds, Max(1, estimated_beds_needed)),
                           FromInt(50)))
            ELSE FromInt(50)
    IN  FAdd(staffing_component, bed_component)

\* HospitalAnalytics._calculate_capacity_score
CalculateCapacityScore(recommended_nurses, estimated_beds_needed, available_nurses, available_beds) ==
    LET staffing_component ==
            FMin(FromInt(50),
                 FMul(Frac(available_nurses, Max(1, recommended_nurses)), FromInt(50)))
        bed_component ==
            IF estimated_beds_needed > 0
            THEN FMin(FromInt(50),
                      FMul(Frac(available_beds, Max(1, estimated_beds_needed)),
                           FromInt(50)))
            ELSE FromInt(50)
        total_score == FAdd(staffing_component, bed_component)
    IN  FMax(FromInt(0), FMin(FromInt(100), total_score))

\* ---------------------------------------- analyze_crowd_distribution

ZoneRows == 3

ZoneCols == 3

\* int(x) of the fraction x: truncation toward zero.
Trunc(x) == IF x.num >= 0 THEN x.num \div x.den ELSE 0 - ((0 - x.num) \div x.den)

\* bbox = det.get("bbox", [])
BBoxOf(det) == IF "bbox" \in DOMAIN det THEN det.bbox ELSE <<>>

\* detection["detections"] if the key is present and the list is non-empty.
BoxesOfSample(detection) ==
    IF "detections" \in DOMAIN detection THEN detection.detections ELSE <<>>

\* if len(bbox) == 4
IsCounted(bbox) == Len(bbox) = 4

\* col = min(int(center / zone_size), zones - 1), center = (lo + hi) / 2
ZoneIndex(lo, hi, frame_size, zones) ==
    Min(Trunc(FDiv(Frac(lo + hi, 2), Frac(frame_size, zones))), zones - 1)

\* zone_key of a counted box, as <<row, col>>.
ZoneKeyOf(bbox, frame_width, frame_height) ==
    <<ZoneIndex(bbox[2], bbox[4], frame_height, ZoneRows),
      ZoneIndex(bbox[1], bbox[3], frame_width, ZoneCols)>>

ZoneKeys == (0..(ZoneRows - 1)) \X (0..(ZoneCols - 1))

\* All det entries of all samples, in the order the two loops visit them.
RECURSIVE AllBoxes(_)
AllBoxes(dets) ==
    IF dets = <<>> THEN <<>>
    ELSE BoxesOfSample(Head(dets)) \o AllBoxes(Tail(dets))

\* The counting loop over the first k det entries: zone_counts and
\* total_detections_with_boxes, or the KeyError of zone_counts[zone_key] += 1
\* for a key that is not one of the nine, which ends the loop at that entry.
CountZones(k, boxes, frame_width, frame_height) ==
    LET raising ==
            {i \in 1..k :
                /\ IsCounted(BBoxOf(boxes[i]))
                /\ ZoneKeyOf(BBoxOf(boxes[i]), frame_width, frame_height) \notin ZoneKeys}
        visited ==
            IF raising = {} THEN k
            ELSE (CHOOSE i \in raising : \A j \in raising : i <= j) - 1
        counted == {i \in 1..visited : IsCounted(BBoxOf(boxes[i]))}
    IN  [raised |-> raising # {},
         zone_counts |->
             [z \in ZoneKeys |->
                 Cardinality({i \in counted :
                     ZoneKeyOf(BBoxOf(boxes[i]), frame_width, frame_height) = z})],
         total |-> Cardinality(counted)]

\* percentage = count / total * 100 if total > 0 else 0
ZonePercentage(count, total) == IF total > 0 THEN Frac(count * 100, total) ELSE FromInt(0)

DensityLevel(percentage) ==
    IF FLt(FromInt(20), percentage) THEN "Very High"
    ELSE IF FLt(FromInt(15), percentage) THEN "High"
    ELSE IF FLt(FromInt(10), percentage) THEN "Moderate"
    ELSE IF FLt(FromInt(5), percentage) THEN "Low"
    ELSE "Very Low"

RowNames == <<"Top", "Middle", "Bottom">>

ColNames == <<"Left", "Center", "Right">>

\* CrowdAnalytics._get_zone_name
GetZoneName(row, col) == <<RowNames[row + 1], ColNames[col + 1]>>

\* The dict appended to zones; percentage is round(percentage, 1) in tenths.
ZoneRecord(row, col, count, total) ==
    [zone_id |-> <<row, col>>, row |-> row, col |-> col,
     position |-> GetZoneName(row, col),
     detection_count |-> count,
     percentage |-> Round1(ZonePercentage(count, total)),
     density_level |-> DensityLevel(ZonePercentage(count, total))]

\* zones, row by row.
ZoneList(zone_counts, total) ==
    [i \in 1..(ZoneRows * ZoneCols) |->
        LET row == (i - 1) \div ZoneCols
            col == (i - 1) % ZoneCols
        IN  ZoneRecord(row, col, zone_counts[<<row, col>>], total)]

\* [z for z in zones if z["percentage"] > 15]
RECURSIVE HotspotFilter(_)
HotspotFilter(zones) ==
    IF zones = <<>> THEN <<>>
    ELSE IF Head(zones).percentage > 150
         THEN <<Head(zones)>> \o HotspotFilter(Tail(zones))
         ELSE HotspotFilter(Tail(zones))

\* z inserted into a list sorted by descending percentage, after the entries
\* that are not smaller (the sort is stable).
RECURSIVE InsertDescending(_, _)
InsertDescending(z, sorted) ==
    IF sorted = <<>> THEN <<z>>
    ELSE IF Head(sorted).percentage >= z.percentage
         THEN <<Head(sorted)>> \o InsertDescending(z, Tail(sorted))
         ELSE <<z>> \o sorted

\* hotspots.sort(key=percentage, reverse=True)
RECURSIVE SortDescending(_)
SortDescending(zones) ==
    IF zones = <<>> THEN <<>>
    ELSE InsertDescending(zones[Len(zones)], SortDescending(SubSeq(zones, 1, Len(zones) - 1)))

DistributionPattern(n) ==
    IF n >= 3 THEN "Distributed"
    ELSE IF n = 2 THEN "Bi-modal"
    ELSE IF n = 1 THEN "Concentrated"
    ELSE "Uniform"

\* CrowdAnalytics.analyze_crowd_distribution (frame_width, frame_height > 0)
AnalyzeCrowdDistribution(dets, frames, frame_width, frame_height) ==
    IF dets = <<>> \/ frames = <<>>
    THEN [distribution_pattern |-> "No data", zones |-> <<>>, hotspots |-> <<>>]
    ELSE LET boxes == AllBoxes(dets)
             counted == CountZones(Len(boxes), boxes, frame_width, frame_height)
             zones == ZoneList(counted.zone_counts, counted.total)
             hotspots == SortDescending(HotspotFilter(zones))
         IN  IF counted.raised THEN [raised |-> "KeyError"]
             ELSE [distribution_pattern |-> DistributionPattern(Len(hotspots)),
                   total_detections_analyzed |-> counted.total,
                   zones |-> zones,
                   hotspots |-> hotspots,
                   grid_size |-> [rows |-> ZoneRows, cols |-> ZoneCols]]

\* ------------------------------------ calculate_bed_demand_forecasting

\* round(x, 0), in units.
Round0(x) == RoundScaled(x, 1)

\* variance_factor = 1.15
VarianceFactor == Frac(115, 100)

\* critical_care_ratio: float = 0.2
DefaultCriticalCareRatio == Frac(1, 5)

UrgencyCritical == "Critical - Immediate action required"

UrgencyHigh == "High - Plan additional capacity"

UrgencyModerate == "Moderate - Monitor closely"

UrgencyLow == "Low - Normal operations"

UrgencyVeryLow == "Very Low - Adequate capacity"

\* HospitalAnalytics._classify_urgency
ClassifyUrgency(occupancy_rate, shortage, total_beds) ==
    IF FLe(FromInt(1), occupancy_rate) \/ FLt(FromInt(10), shortage)
    THEN UrgencyCritical
    ELSE IF FLe(Frac(9, 10), occupancy_rate) \/ FLt(FromInt(5), shortage)
    THEN UrgencyHigh
    ELSE IF FLe(Frac(3, 4), occupancy_rate) \/ FLt(FromInt(2), shortage)
    THEN UrgencyModerate
    ELSE IF FLe(Frac(3, 5), occupancy_rate)
    THEN UrgencyLow
    ELSE UrgencyVeryLow

\* HospitalAnalytics._generate_bed_recommendation: the sentence chosen and the
\* number it quotes (int(shortage), or the free beds).
GenerateBedRecommendation(urgency, shortage, available_beds) ==
    IF urgency = UrgencyCritical
    THEN [text |-> "URGENT: Implement surge capacity protocols", beds |-> Trunc(shortage)]
    ELSE IF urgency = UrgencyHigh
    THEN [text |-> "Prepare surge beds and notify administration", beds |-> Trunc(shortage)]
    ELSE IF urgency = UrgencyModerate
    THEN [text |-> "Monitor bed status closely", beds |-> Trunc(shortage)]
    ELSE [text |-> "Normal operations", beds |-> available_beds]

\* Variant: the shortage is taken as available beds minus waiting patients.
AdditionalCapacityNeededSwapped(estimated_waiting_patients, available_beds) ==
    FMax(FromInt(0), FSub(FromInt(available_beds), estimated_waiting_patients))

\* estimated_additional_capacity_needed = max(0, waiting - available_beds)
AdditionalCapacityNeeded(estimated_waiting_patients, available_beds) ==
    FMax(FromInt(0), FSub(estimated_waiting_patients, FromInt(available_beds)))

\* HospitalAnalytics.calculate_bed_demand_forecasting; rounded values are kept
\* as integers of the rounding unit (tenths, thousandths, units).
CalculateBedDemandForecasting(average_person_count, peak_person_count, total_beds, occupied_beds, available_beds, critical_care_ratio) ==
    LET estimated_waiting_patients == average_person_count
        estimated_critical_need == FMul(estimated_waiting_patients, critical_care_ratio)
        estimated_general_need ==
            FMul(estimated_waiting_patients, FSub(FromInt(1), critical_care_ratio))
        current_occupancy_rate ==
            IF total_beds > 0 THEN Frac(occupied_beds, total_beds) ELSE FromInt(0)
        projected_occupancy_rate ==
            IF total_beds > 0
            THEN FDiv(FAdd(FromInt(occupied_beds), estimated_waiting_patients),
                      FromInt(total_beds))
            ELSE FromInt(1)
        adjusted_projected_occupancy == FMul(projected_occupancy_rate, VarianceFactor)
        estimated_additional_capacity_needed ==
            AdditionalCapacityNeeded(estimated_waiting_patients, available_beds)
        urgency_level ==
            ClassifyUrgency(adjusted_projected_occupancy,
                            estimated_additional_capacity_needed, total_beds)
    IN  [estimated_waiting_patients |-> Round1(estimated_waiting_patients),
         estimated_peak_patients |-> peak_person_count,
         current_occupancy_rate |-> Round3(current_occupancy_rate),
         projected_occupancy_rate |-> Round3(adjusted_projected_occupancy),
         current_available_beds |-> available_beds,
         estimated_beds_needed |-> Round0(estimated_waiting_patients),
         additional_capacity_needed |->
             Max(0, Round0(estimated_additional_capacity_needed)),
         critical_care_beds_needed |-> Round1(estimated_critical_need),
         general_beds_needed |-> Round1(estimated_general_need),
         urgency_level |-> urgency_level,
         recommendation |->
             GenerateBedRecommendation(urgency_level,
                                       estimated_additional_capacity_needed,
                                       available_beds),
         algorithm |-> "Lee-Longton Algorithm + Occupancy Forecasting"]

\* ------------------------------------------- calculate_optimal_staffing

\* float('inf')
Inf == [inf |-> TRUE]

\* A rounded number, and a string standing in its place.
Number(v) == [value |-> v]

Marker(s) == [marker |-> s]

\* round(x, 2), in hundredths.
Round2(x) == RoundScaled(x, 100)

\* np.ceil of the fraction x.
Ceil(x) == 0 - ((0 - x.num) \div x.den)

\* HospitalAnalytics.calculate_average_wait_time, in minutes.
CalculateAverageWaitTime(arrival_rate, service_rate, num_agents, rounding) ==
    IF \/ num_agents <= 0
       \/ service_rate.num <= 0
       \/ FLe(FMul(FromInt(num_agents), service_rate), arrival_rate)
    THEN Inf
    ELSE LET erlang_c == ErlangC(arrival_rate, service_rate, num_agents, rounding).value
             wait_time_hours ==
                 FDiv(erlang_c, FSub(FMul(FromInt(num_agents), service_rate), arrival_rate))
         IN  FMax(FromInt(0), FMul(wait_time_hours, FromInt(60)))

\* HospitalAnalytics.estimate_arrival_rate_from_crowd
EstimateArrivalRateFromCrowd(average_person_count, peak_person_count, video_duration_minutes) ==
    IF video_duration_minutes <= 0 THEN FromInt(0)
    ELSE FMax(FromInt(0),
              FMul(FMul(average_person_count, FromInt(2)), Frac(60, video_duration_minutes)))

\* HospitalAnalytics.estimate_service_rate_from_context
EstimateServiceRateFromContext(available_staff, area_sqm) ==
    LET area_factor == IF area_sqm < 200 THEN FromInt(1) ELSE Frac(200, area_sqm)
    IN  FMax(FromInt(1), FMul(FromInt(6), area_factor))

\* wait_time <= target_wait_time_minutes
WaitWithinTarget(wait_time, target_wait_time_minutes) ==
    wait_time # Inf /\ FLe(wait_time, target_wait_time_minutes)

\* wait_time < best_wait_time
WaitBelowBest(wait_time, best_wait_time) ==
    wait_time # Inf /\ (best_wait_time = Inf \/ FLt(wait_time, best_wait_time))

\* The staffing_analysis entry of one candidate.
StaffingEntry(arrival_rate, service_rate, intensity, num_agents, rounding) ==
    LET wait_time == CalculateAverageWaitTime(arrival_rate, service_rate, num_agents, rounding)
    IN  [wait_time_minutes |->
             IF wait_time # Inf THEN Number(Round1(wait_time)) ELSE Marker("Unstable"),
         probability_waiting |->
             Round3(ErlangC(arrival_rate, service_rate, num_agents, rounding).value),
         system_utilization |->
             IF num_agents > 0 THEN Round3(FDiv(intensity, FromInt(num_agents))) ELSE 0]

\* Variant: the search starts from the nurses on duty.
InitialStaffingOnDuty(current_nurses, available_nurses) == current_nurses

\* optimal_staffing = available_nurses
InitialStaffing(current_nurses, available_nurses) == available_nurses

\* The for loop over num_agents in first..last, as the pair it tracks.
RECURSIVE StaffingSearch(_, _, _, _, _, _, _)
StaffingSearch(first, last, arrival_rate, service_rate, target, start, rounding) ==
    IF last < first
    THEN [optimal_staffing |-> start, best_wait_time |-> Inf]
    ELSE LET acc == StaffingSearch(first, last - 1, arrival_rate, service_rate, target,
                                   start, rounding)
             wait_time == CalculateAverageWaitTime(arrival_rate, service_rate, last, rounding)
         IN  IF WaitWithinTarget(wait_time, target)
                  /\ WaitBelowBest(wait_time, acc.best_wait_time)
             THEN [optimal_staffing |-> last, best_wait_time |-> wait_time]
             ELSE acc

\* HospitalAnalytics.calculate_optimal_staffing
CalculateOptimalStaffing(average_person_count, peak_person_count, current_nurses, available_nurses, video_duration_minutes, target_wait_time_minutes, area_sqm, rounding) ==
    LET arrival_rate ==
            EstimateArrivalRateFromCrowd(average_person_count, peak_person_count,
                                         video_duration_minutes)
        service_rate == EstimateServiceRateFromContext(available_nurses, area_sqm)
        intensity ==
            IF service_rate.num > 0
            THEN FloatQuotient(arrival_rate, service_rate, rounding)
            ELSE FromInt(0)
        min_agents == Ceil(intensity) + 1
        first == Max(1, min_agents - 1)
        last == min_agents + 4
        found == StaffingSearch(first, last, arrival_rate, service_rate,
                                target_wait_time_minutes,
                                InitialStaffing(current_nurses, available_nurses),
                                rounding)
        optimal_staffing == found.optimal_staffing
        current_available == available_nurses
        confidence ==
            FMin(FromInt(1),
                 FAdd(FMul(Frac(optimal_staffing, Max(current_available, 1)), Frac(4, 5)),
                      Frac(1, 5)))
    IN  [recommended_nurses |-> optimal_staffing,
         additional_nurses_needed |-> Max(0, optimal_staffing - current_available),
         current_available |-> current_available,
         arrival_rate_per_hour |-> Round1(arrival_rate),
         service_rate_per_agent |-> Round1(service_rate),
         system_intensity |-> Round2(intensity),
         predicted_wait_time_minutes |->
             IF found.best_wait_time # Inf THEN Number(Round1(found.best_wait_time))
             ELSE Marker("High"),
         probability_waiting |->
             Round3(ErlangC(arrival_rate, service_rate, optimal_staffing, rounding).value),
         system_utilization |->
             IF optimal_staffing > 0
             THEN Round3(FDiv(intensity, FromInt(optimal_staffing))) ELSE 0,
         staffing_analysis |->
             [num_agents \in first..last |->
                 StaffingEntry(arrival_rate, service_rate, intensity, num_agents,
                               rounding)],
         confidence |-> Round2(confidence),
         algorithm |-> "Erlang C + Queueing Theory (M/M/c)"]

\* ------------------------------ calculate_comprehensive_hospital_metrics

\* target_wait_time_minutes: float = 10.0
DefaultTargetWait == 10

\* area_sqm: float = 100.0
DefaultArea == 100

\* d.get(key, default)
Get(d, key, default) == IF key \in DOMAIN d THEN d[key] ELSE default

\* HospitalAnalytics._classify_status
ClassifyStatus(capacity_score) ==
    IF FLe(FromInt(80), capacity_score) THEN "Optimal - All resources adequate"
    ELSE IF FLe(FromInt(60), capacity_score) THEN "Good - Minor constraints"
    ELSE IF FLe(FromInt(40), capacity_score) THEN "Fair - Notable constraints"
    ELSE IF FLe(FromInt(20), capacity_score) THEN "Poor - Significant strain"
    ELSE "Critical - Severe strain"

\* The alerts about nurses and about beds; an alert is its level, its subject
\* and the number its text shows.
StaffAlerts(staffing_rec) ==
    LET additional_staff == Get(staffing_rec, "additional_nurses_needed", 0)
    IN  IF additional_staff >= 3
        THEN <<[level |-> "CRITICAL", about |-> "nurses", amount |-> additional_staff]>>
        ELSE IF additional_staff >= 1
        THEN <<[level |-> "WARNING", about |-> "nurses", amount |-> additional_staff]>>
        ELSE <<>>

\* "Critical" in urgency_level / "High" in urgency_level: of the five urgency
\* levels one holds each word.
BedAlerts(bed_rec) ==
    LET additional_beds == Get(bed_rec, "additional_capacity_needed", 0)
        urgency_level == Get(bed_rec, "urgency_level", "")
    IN  IF urgency_level = UrgencyCritical
        THEN <<[level |-> "CRITICAL", about |-> "beds", amount |-> additional_beds]>>
        ELSE IF urgency_level = UrgencyHigh
        THEN <<[level |-> "WARNING", about |-> "beds", amount |-> additional_beds]>>
        ELSE <<>>

\* Variant: the wait-time alert is raised for every numeric wait.
GenerateAlertsAnyWait(staffing_rec, bed_rec) ==
    LET wait_time == Get(staffing_rec, "predicted_wait_time_minutes", Number(0))
        wait_alerts ==
            IF "value" \in DOMAIN wait_time /\ wait_time.value >= 0
            THEN <<[level |-> "Alert", about |-> "wait", amount |-> wait_time.value]>>
            ELSE <<>>
    IN  StaffAlerts(staffing_rec) \o BedAlerts(bed_rec) \o wait_alerts

\* HospitalAnalytics._generate_alerts; the wait is in tenths of a minute.
GenerateAlerts(staffing_rec, bed_rec) ==
    LET wait_time == Get(staffing_rec, "predicted_wait_time_minutes", Number(0))
        wait_alerts ==
            IF "value" \in DOMAIN wait_time /\ wait_time.value > 300
            THEN <<[level |-> "Alert", about |-> "wait", amount |-> wait_time.value]>>
            ELSE <<>>
    IN  StaffAlerts(staffing_rec) \o BedAlerts(bed_rec) \o wait_alerts

\* HospitalAnalytics.calculate_comprehensive_hospital_metrics
\* (analysis_timestamp, the clock, and summary, a text, are left out).
CalculateComprehensiveHospitalMetrics(average_person_count, peak_person_count, video_duration_minutes, hospital_context, rounding) ==
    LET staffing == Get(hospital_context, "staffing", <<>>)
        resources == Get(hospital_context, "resources", <<>>)
        area_sqm == Get(hospital_context, "area_sqm", DefaultArea)
        location == Get(hospital_context, "location_name", "Hospital Area")
        current_nurses == Get(staffing, "total_nurses", 0)
        available_nurses == Get(staffing, "available_nurses", 0)
        total_beds == Get(resources, "total_beds", 0)
        occupied_beds == Get(resources, "occupied_beds", 0)
        available_beds == Get(resources, "available_beds", 0)
    IN  \* staffing_rec, bed_rec and capacity_score are bound once each, as the
        \* local variables of the method are.
        CHOOSE report \in
            UNION {{[location |-> location,
                     staffing_analysis |-> staffing_rec,
                     bed_analysis |-> bed_rec,
                     capacity_score |-> Round1(capacity_score),
                     overall_status |-> ClassifyStatus(capacity_score),
                     critical_alerts |-> GenerateAlerts(staffing_rec, bed_rec)] :
                        capacity_score \in
                            {CalculateCapacityScore(staffing_rec.recommended_nurses,
                                                    bed_rec.estimated_beds_needed,
                                                    available_nurses, available_beds)}} :
                   staffing_rec \in
                       {CalculateOptimalStaffing(average_person_count, peak_person_count,
                                                 current_nurses, available_nurses,
                                                 video_duration_minutes,
                                                 FromInt(DefaultTargetWait), area_sqm,
                                                 rounding)},
                   bed_rec \in
                       {CalculateBedDemandForecasting(average_person_count,
                                                      peak_person_count, total_beds,
                                                      occupied_beds, available_beds,
                                                      DefaultCriticalCareRatio)}} : TRUE

\* ----------------------------------------------- calculate_flow_metrics

\* changes[i] = person_counts[i] - person_counts[i-1]
Changes(person_counts) ==
    [i \in 1..(Len(person_counts) - 1) |-> person_counts[i + 1] - person_counts[i]]

\* Variant: a mean change of exactly 0.5 (-0.5) already counts as a trend.
TrendOfInclusive(avg_change) ==
    IF FLe(Frac(1, 2), avg_change) THEN "Increasing"
    ELSE IF FLe(avg_change, Frac(0 - 1, 2)) THEN "Decreasing"
    ELSE "Stable"

\* if avg_change > 0.5 ... elif avg_change < -0.5 ... else
TrendOf(avg_change) ==
    IF FLt(Frac(1, 2), avg_change) THEN "Increasing"
    ELSE IF FLt(avg_change, Frac(0 - 1, 2)) THEN "Decreasing"
    ELSE "Stable"

\* np.std(person_counts) squared: the mean of the squares minus the square of
\* the mean.
Variance(person_counts) ==
    LET squares == [i \in 1..Len(person_counts) |-> person_counts[i] * person_counts[i]]
        mean == Frac(SumSeq(person_counts), Len(person_counts))
    IN  FSub(Frac(SumSeq(squares), Len(person_counts)), FMul(mean, mean))

\* (std_dev / mean_count * 100) if mean_count > 0 else 0, squared: the square
\* root is not taken, the thresholds are compared by their squares.
CoefficientOfVariationSquared(person_counts) ==
    LET mean_count == Frac(SumSeq(person_counts), Len(person_counts))
    IN  IF mean_count.num > 0
        THEN FMul(FDiv(Variance(person_counts), FMul(mean_count, mean_count)),
                  FromInt(10000))
        ELSE FromInt(0)

\* if coefficient_of_variation > 40 ... elif > 20 ... else
VariabilityOf(coefficient_squared) ==
    IF FLt(FromInt(1600), coefficient_squared) THEN "High"
    ELSE IF FLt(FromInt(400), coefficient_squared) THEN "Moderate"
    ELSE "Low"

\* CrowdAnalytics.calculate_flow_metrics. coefficient_of_variation is 0 when
\* the value is 0 and otherwise stands as its square; std_deviation, a square
\* root, is left out.
CalculateFlowMetrics(dets, frames, video_duration) ==
    IF Len(dets) < 2
    THEN [flow_rate |-> 0, trend |-> "Stable", variability |-> "Low"]
    ELSE LET person_counts == PersonCounts(dets)
             changes == Changes(person_counts)
             avg_change == Mean(changes)
             mean_count == Mean(person_counts)
             coefficient_squared == CoefficientOfVariationSquared(person_counts)
         IN  [flow_rate |-> Round2(avg_change),
              trend |-> TrendOf(avg_change),
              variability |-> VariabilityOf(coefficient_squared),
              coefficient_of_variation |->
                  IF coefficient_squared.num = 0 THEN Number(0)
                  ELSE [squared |-> coefficient_squared],
              average_count |-> Round1(mean_count)]

\* ------------------------------------------------------------ inputs

\* Largest enumerated min_bottleneck_duration.
MaxMinDuration == 3

\* Largest enumerated agent count, resource count and density person count.
MaxAgents == 6

\* CrowdAnalytics.__init__ defaults.
DefaultHighDensityThreshold == 15

DefaultMultiplier == Frac(3, 2)

Multipliers == {Frac(5, 4), DefaultMultiplier, Frac(2, 1)}

DefaultMinDuration == 3

\* Configurations within the documented ranges (multiplier > 1, duration >= 0).
ValidConfigs ==
    [high_density_threshold : {DefaultHighDensityThreshold},
     bottleneck_threshold_multiplier : Multipliers,
     min_bottleneck_duration : 1..MaxMinDuration]

\* Configurations outside the documented ranges: a negative minimum duration,
\* a multiplier that is not above 1.
InvalidConfigs ==
    {[high_density_threshold |-> DefaultHighDensityThreshold,
      bottleneck_threshold_multiplier |-> DefaultMultiplier,
      min_bottleneck_duration |-> 0 - 1],
     [high_density_threshold |-> DefaultHighDensityThreshold,
      bottleneck_threshold_multiplier |-> FromInt(1),
      min_bottleneck_duration |-> DefaultMinDuration]}

\* CrowdAnalytics.__init__ stores its three arguments as given.
Configs == ValidConfigs \cup InvalidConfigs

\* Series of the repository's tests and of the documented scenarios.
ScenarioSeries ==
    {<<5, 5, 5, 5, 5>>,
     <<5, 5, 20, 25, 20, 5, 5>>,
     <<10, 30, 30, 10>>,
     <<5, 20, 20, 5, 5, 20, 20, 5>>,
     <<5, 10, 15, 20, 25, 20, 15, 10, 8, 5>>}

BoundedSeries == UNION {[1..n -> 0..MaxCount] : n \in 0..MaxLen}

SeriesInputs == BoundedSeries \cup ScenarioSeries

\* Series given to the operations that do not grade the counts.
PlainSeries == {[i \in 1..n |-> i % (MaxCount + 1)] : n \in 0..(MaxLen + 3)}

\* Frames are sampled at a fixed rate: frame i has timestamp start + (i-1)*step.
FrameSchedules == [start : {0, 58}, step : {1, 2}]

\* frames_data may miss the last frames of detections.
FrameDrops == {0, 1}

IntervalInputs == {1, 2, 3, 10}

MakeDetections(series) == [i \in 1..Len(series) |-> [person_count |-> series[i]]]

MakeFrames(n, sched) ==
    [i \in 1..n |-> [frame_number |-> (i - 1) * 30,
                     timestamp |-> sched.start + (i - 1) * sched.step]]

ArrivalRates == {0, 6, 15, 30}

ServiceRates == {0 - 1, 0, 1, 2, 6}

AgentCounts == (0 - 1)..MaxAgents

ResourceCounts == ((0 - 1)..MaxAgents) \cup {100}

AreaInputs == {0 - 10, 0, 10, 100}

DensityCounts == (0..(MaxAgents + 1)) \cup {9, 10, 11, 19, 20, 39, 40, 59, 60, 61}

\* Entries of a sample's "detections" list on a 6 x 3 frame: boxes centred in
\* the zones (0,0) and (1,1), a box centred beyond the right and bottom edges,
\* a box whose corners are in the wrong order (x2 < x1, y2 < y1), an entry
\* without "bbox", and a box centred left of the frame.
WellFormedDets ==
    {[bbox |-> <<0, 0, 2, 1>>], [bbox |-> <<2, 1, 4, 2>>], [bbox |-> <<5, 2, 9, 4>>]}

MalformedDets == {[bbox |-> <<4, 1, 2, 0>>]}

DetKinds ==
    WellFormedDets \cup MalformedDets
        \cup {[confidence |-> 1], [bbox |-> <<0 - 6, 0, 0 - 2, 1>>]}

MaxBoxes == 3

BoxLists == UNION {[1..n -> DetKinds] : n \in 0..MaxBoxes}

\* A list of a + b + c boxes: a in the top-left zone of the small frame, b in
\* its middle zone, c in its bottom-right zone.
BoxMix(a, b, c) ==
    [i \in 1..(a + b + c) |->
        IF i <= a THEN [bbox |-> <<0, 0, 2, 1>>]
        ELSE IF i <= a + b THEN [bbox |-> <<2, 1, 4, 2>>]
        ELSE [bbox |-> <<5, 2, 9, 4>>]]

\* A crowded scene: 113 boxes, 17 of them (15.04 percent) in one zone.
DenseBoxLists == {BoxMix(17, 48, 48)}

FrameSizes == {[frame_width |-> 6, frame_height |-> 3], [frame_width |-> 640, frame_height |-> 480]}

\* How the boxes are spread over the samples: all in one sample, one sample
\* per box, or one sample between a sample without the "detections" key (the
\* detector omits it when it finds nobody) and a sample with an empty list.
SampleLayouts == {"single", "per_box", "with_gaps", "no_frames"}

MakeBoxSamples(boxes, layout) ==
    LET full == [person_count |-> Len(boxes), detections |-> boxes]
    IN  IF layout = "per_box"
        THEN [i \in 1..Len(boxes) |-> [person_count |-> 1, detections |-> <<boxes[i]>>]]
        ELSE IF layout = "with_gaps"
        THEN <<[person_count |-> 0], full, [person_count |-> 0, detections |-> <<>>]>>
        ELSE <<full>>

\* average_person_count as the waiting-patient estimate: 0, 2.5, 10 (the
\* documented bed scenario), 11.4 and 30.
WaitingInputs == {FromInt(0), Frac(5, 2), FromInt(10), Frac(57, 5), FromInt(30)}

\* (total_beds, occupied_beds, available_beds) of the hospital context,
\* including the documented scenario 50 / 42 / 8 and a context without beds.
BedContexts ==
    {[total_beds |-> 50, occupied_beds |-> 42, available_beds |-> 8],
     [total_beds |-> 50, occupied_beds |-> 30, available_beds |-> 20],
     [total_beds |-> 50, occupied_beds |-> 50, available_beds |-> 0],
     [total_beds |-> 100, occupied_beds |-> 40, available_beds |-> 60],
     [total_beds |-> 100, occupied_beds |-> 92, available_beds |-> 8],
     [total_beds |-> 0, occupied_beds |-> 0, available_beds |-> 0]}

PeakInputs == {12, 30}

\* average_person_count given to the staffing search.
StaffingAverages == {FromInt(0), Frac(1, 4), Frac(1, 2), FromInt(1)}

DurationInputs == {0, 10}

TargetInputs == {0, 1, DefaultTargetWait}

StaffingAreas == {DefaultArea, 400}

\* (average_person_count, area_sqm), among them a crowd and an area whose
\* estimated arrival rate is exactly three times the estimated service rate,
\* neither rate being a double.
StaffingLoads == (StaffingAverages \X StaffingAreas) \cup {<<Frac(10, 7), 210>>}

\* (current_nurses, available_nurses)
NurseContexts ==
    {[current_nurses |-> 5, available_nurses |-> 3],
     [current_nurses |-> 2, available_nurses |-> 2],
     [current_nurses |-> 10, available_nurses |-> 0]}

\* hospital_context: staffing, resources and the area served; the area is
\* absent when it is the default.
MakeHospitalContext(nurses, beds, area_sqm) ==
    LET given ==
            [staffing |-> [total_nurses |-> nurses.current_nurses,
                           available_nurses |-> nurses.available_nurses],
             resources |-> beds]
    IN  IF area_sqm = DefaultArea THEN given
        ELSE [staffing |-> given.staffing, resources |-> given.resources,
              area_sqm |-> area_sqm]

\* ------------------------------------------------------------- state

\* Invocations of detect_bottlenecks that may be in progress at the same time
\* on one instance (one per thread).
RunIds == {1, 2}

\* Series given to the invocations that are followed step by step.
RunSeries == {<<>>, <<10, 30, 30, 10>>, <<5, 20, 20, 5, 5, 20, 20, 5>>}

RunSchedules == {[start |-> 0, step |-> 1]}

IdleRun ==
    [pc |-> "idle", detections |-> <<>>, frames_data |-> <<>>, given |-> None,
     k |-> 0, result |-> None]

\* bottleneck_periods = [] ; current_bottleneck = None
EmptyLocals == [current_bottleneck |-> None, bottleneck_periods |-> <<>>]

\* ------------------------------------------------------ analyze_video

\* Largest frame count of an analysed video.
MaxFrames == 12

\* VideoProcessor.__init__, VideoAnalysisService.__init__: frame_sample_rate.
DefaultFrameSampleRate == 30

\* person_detector.detect_persons(frame, return_boxes=True): the count and
\* one box per person. What the detector finds depends on the video and on
\* the position k of the frame among the processed ones: nobody; two people
\* in the first three frames, one in the next two, then nobody; nobody but
\* for two people in the third to fifth frame; one and two people in turn.
DetectPersons(scene, k) ==
    LET person_count ==
            CASE scene = "empty" -> 0
              [] scene = "surge" -> IF k <= 3 THEN 2 ELSE IF k <= 5 THEN 1 ELSE 0
              [] scene = "visit" -> IF k >= 3 /\ k <= 5 THEN 2 ELSE 0
              [] scene = "steady" -> 1 + (k % 2)
    IN  [person_count |-> person_count,
         detections |-> [i \in 1..person_count |-> [bbox |-> <<100, 100, 200, 300>>]]]

\* VideoProcessor.get_video_metadata: the keys read by the analysis, of
\* videos 640 wide and 480 high.
VideoMetadata(total_frames, fps) ==
    [fps |-> fps, total_frames |-> total_frames, width |-> 640, height |-> 480,
     duration_seconds |-> IF fps > 0 THEN Frac(total_frames, fps) ELSE FromInt(0)]

\* progress = 10 + int((current / total) * 40)
ExtractionProgress(current, total) ==
    10 + Trunc(FMul(Frac(current, total), FromInt(40)))

\* progress = 50 + int((idx / total_frames) * 40)
DetectionProgress(idx, total_frames) ==
    50 + Trunc(FMul(Frac(idx, total_frames), FromInt(40)))

\* DetectionStats.calculate_statistics: the mean and maximum are not rounded.
CalculateStatistics(dets) ==
    IF dets = <<>>
    THEN [total_frames |-> 0, average_person_count |-> FromInt(0), max_person_count |-> 0]
    ELSE [total_frames |-> Len(dets),
          average_person_count |-> Mean(PersonCounts(dets)),
          max_person_count |-> MaxSeq(PersonCounts(dets))]

\* VideoAnalysisService._generate_insights
GenerateInsights(results) ==
    LET avg_count == results.statistics.average_person_count
        max_count == results.statistics.max_person_count
    IN  [crowd_level |-> IF FLt(avg_count, FromInt(5)) THEN "Low"
                         ELSE IF FLt(avg_count, FromInt(15)) THEN "Moderate"
                         ELSE IF FLt(avg_count, FromInt(25)) THEN "High"
                         ELSE "Very High",
         average_person_count |-> Round1(avg_count),
         peak_person_count |-> max_count,
         suggested_nurses |-> Max(1, Ceil(FDiv(avg_count, FromInt(10)))),
         bottleneck_detected |-> FLt(FMul(avg_count, Frac(3, 2)), FromInt(max_count))]

\* interval_seconds=10 of the report's visualization data.
ReportInterval == 10

\* area_sqm default of calculate_crowd_density, which the report relies on.
DefaultDensityArea == 100

\* CrowdAnalytics.generate_comprehensive_report, but for generated_at.
GenerateComprehensiveReport(cfg, dets, frames, video_metadata) ==
    [crowd_density |->
         CalculateCrowdDensity(IF dets = <<>> THEN 0 ELSE Trunc(Mean(PersonCounts(dets))),
                               DefaultDensityArea),
     spatial_distribution |->
         AnalyzeCrowdDistribution(dets, frames, video_metadata.width, video_metadata.height),
     bottleneck_analysis |-> DetectBottlenecks(cfg, dets, frames),
     visualization_data |-> CreateVisualizationData(dets, frames, ReportInterval),
     flow_metrics |-> CalculateFlowMetrics(dets, frames, video_metadata.duration_seconds)]

\* The dict analyze_video returns when an exception reaches its handler.
FailedResults(error) == [status |-> "failed", error |-> error]

\* The dict analyze_video compiles: statistics, insights over them, and the
\* enhanced analytics, of analytics configured with the defaults
\* (self.analytics = CrowdAnalytics()).
CompletedResults(dets, frames, video_metadata) ==
    LET results == [status |-> "completed", statistics |-> CalculateStatistics(dets)]
        analytics == [high_density_threshold |-> DefaultHighDensityThreshold,
                      bottleneck_threshold_multiplier |-> DefaultMultiplier,
                      min_bottleneck_duration |-> DefaultMinDuration]
    IN  [status |-> "completed",
         frames_processed |-> Len(frames),
         statistics |-> results.statistics,
         insights |-> GenerateInsights(results),
         enhanced_analytics |->
             GenerateComprehensiveReport(analytics, dets, frames, video_metadata)]

\* No analysis in progress.
IdleVideo ==
    [pc |-> "idle", total_frames |-> 0, frame_sample_rate |-> DefaultFrameSampleRate,
     scene |-> "empty", enable_ai_insights |-> FALSE, frame_idx |-> 0,
     processed_count |-> 0, frames |-> <<>>, idx |-> 0, detections |-> <<>>,
     progress |-> <<>>, results |-> None]

VARIABLES
    config,       \* fields of the CrowdAnalytics instance
    pc,           \* "idle": no call in progress; "returned": a result is out
    op,           \* the operation last called
    detections,   \* argument detections of the call
    frames_data,  \* argument frames_data of the call
    args,         \* the scalar arguments of the call
    result,       \* the value returned by the call
    runs,         \* detect_bottlenecks invocations in progress on the instance
    locals,       \* bottleneck_periods and current_bottleneck of each invocation
    video         \* the analyze_video run: its position, its lists, the values
                  \* given to progress_callback, its results

vars == <<config, pc, op, detections, frames_data, args, result, runs, locals, video>>

NoArgs == [none |-> TRUE]

Init ==
    /\ config \in Configs
    /\ pc = "idle"
    /\ op = "none"
    /\ detections = <<>>
    /\ frames_data = <<>>
    /\ args = NoArgs
    /\ result = None
    /\ runs = [r \in RunIds |-> IdleRun]
    /\ locals = [r \in RunIds |-> EmptyLocals]
    /\ video = IdleVideo

\* ----------------------------------------------------------- actions

CallDetectBottlenecks ==
    /\ pc = "idle"
    /\ \E series \in SeriesInputs, sched \in FrameSchedules, drop \in FrameDrops :
          /\ detections' = MakeDetections(series)
          /\ frames_data' = MakeFrames(Max(0, Len(series) - drop), sched)
    /\ args' = NoArgs
    /\ op' = "detect_bottlenecks"
    /\ result' = DetectBottlenecks(config, detections', frames_data')
    /\ pc' = "returned"
    /\ UNCHANGED <<config, runs, locals, video>>

CallCreateVisualizationData ==
    /\ pc = "idle"
    /\ \E series \in PlainSeries \cup ScenarioSeries, sched \in FrameSchedules,
          drop \in FrameDrops, interval_seconds \in IntervalInputs :
          /\ detections' = MakeDetections(series)
          /\ frames_data' = MakeFrames(Max(0, Len(series) - drop), sched)
          /\ args' = [interval_seconds |-> interval_seconds]
    /\ op' = "create_visualization_data"
    /\ result' = CreateVisualizationData(detections', frames_data', args'.interval_seconds)
    /\ pc' = "returned"
    /\ UNCHANGED <<config, runs, locals, video>>

CallCalculateCrowdDensity ==
    /\ pc = "idle"
    /\ \E person_count \in DensityCounts, area_sqm \in AreaInputs :
          args' = [person_count |-> person_count, area_sqm |-> area_sqm]
    /\ op' = "calculate_crowd_density"
    /\ result' = CalculateCrowdDensity(args'.person_count, args'.area_sqm)
    /\ pc' = "returned"
    /\ UNCHANGED <<config, detections, frames_data, runs, locals, video>>

CallErlangC ==
    /\ pc = "idle"
    /\ \E arrival_rate \in ArrivalRates, service_rate \in ServiceRates,
          num_agents \in AgentCounts :
          \E rounding \in RoundingsOf(FromInt(arrival_rate), FromInt(service_rate)) :
             args' = [arrival_rate |-> FromInt(arrival_rate),
                      service_rate |-> FromInt(service_rate),
                      num_agents |-> num_agents,
                      rounding |-> rounding]
    /\ op' = "erlang_c_formula"
    /\ result' = ErlangC(args'.arrival_rate, args'.service_rate, args'.num_agents,
                         args'.rounding)
    /\ pc' = "returned"
    /\ UNCHANGED <<config, detections, frames_data, runs, locals, video>>

CallCalculateCapacityScore ==
    /\ pc = "idle"
    /\ \E recommended_nurses \in ResourceCounts, estimated_beds_needed \in ResourceCounts,
          available_nurses \in ResourceCounts, available_beds \in ResourceCounts :
          args' = [recommended_nurses |-> recommended_nurses,
                   estimated_beds_needed |-> estimated_beds_needed,
                   available_nurses |-> available_nurses,
                   available_beds |-> available_beds]
    /\ op' = "_calculate_capacity_score"
    /\ result' = LET score == CalculateCapacityScore(args'.recommended_nurses,
                                                     args'.estimated_beds_needed,
                                                     args'.available_nurses,
                                                     args'.available_beds)
                 IN  [score |-> score, capacity_score |-> Round1(score)]
    /\ pc' = "returned"
    /\ UNCHANGED <<config, detections, frames_data, runs, locals, video>>

CallAnalyzeCrowdDistribution ==
    /\ pc = "idle"
    /\ \E scene \in (BoxLists \X SampleLayouts) \cup (DenseBoxLists \X {"single"}),
          size \in FrameSizes :
          /\ detections' = MakeBoxSamples(scene[1], scene[2])
          /\ frames_data' = IF scene[2] = "no_frames" THEN <<>>
                            ELSE MakeFrames(Len(detections'), [start |-> 0, step |-> 1])
          /\ args' = size
    /\ op' = "analyze_crowd_distribution"
    /\ result' = AnalyzeCrowdDistribution(detections', frames_data',
                                          args'.frame_width, args'.frame_height)
    /\ pc' = "returned"
    /\ UNCHANGED <<config, runs, locals, video>>

CallCalculateBedDemandForecasting ==
    /\ pc = "idle"
    /\ \E average_person_count \in WaitingInputs, peak_person_count \in PeakInputs,
          beds \in BedContexts :
          args' = [average_person_count |-> average_person_count,
                   peak_person_count |-> peak_person_count,
                   total_beds |-> beds.total_beds,
                   occupied_beds |-> beds.occupied_beds,
                   available_beds |-> beds.available_beds]
    /\ op' = "calculate_bed_demand_forecasting"
    /\ result' = CalculateBedDemandForecasting(args'.average_person_count,
                                               args'.peak_person_count,
                                               args'.total_beds, args'.occupied_beds,
                                               args'.available_beds,
                                               DefaultCriticalCareRatio)
    /\ pc' = "returned"
    /\ UNCHANGED <<config, detections, frames_data, runs, locals, video>>

CallCalculateOptimalStaffing ==
    /\ pc = "idle"
    /\ \E load \in StaffingLoads, nurses \in NurseContexts,
          video_duration_minutes \in DurationInputs,
          target_wait_time_minutes \in TargetInputs :
          \E rounding \in
                RoundingsOf(EstimateArrivalRateFromCrowd(load[1], Ceil(load[1]) + 1,
                                                         video_duration_minutes),
                            EstimateServiceRateFromContext(nurses.available_nurses,
                                                           load[2])) :
             args' = [average_person_count |-> load[1],
                      peak_person_count |-> Ceil(load[1]) + 1,
                      current_nurses |-> nurses.current_nurses,
                      available_nurses |-> nurses.available_nurses,
                      video_duration_minutes |-> video_duration_minutes,
                      target_wait_time_minutes |-> target_wait_time_minutes,
                      area_sqm |-> load[2],
                      rounding |-> rounding]
    /\ op' = "calculate_optimal_staffing"
    /\ result' = CalculateOptimalStaffing(args'.average_person_count,
                                          args'.peak_person_count,
                                          args'.current_nurses, args'.available_nurses,
                                          args'.video_duration_minutes,
                                          FromInt(args'.target_wait_time_minutes),
                                          args'.area_sqm, args'.rounding)
    /\ pc' = "returned"
    /\ UNCHANGED <<config, detections, frames_data, runs, locals, video>>

CallCalculateFlowMetrics ==
    /\ pc = "idle"
    /\ \E series \in SeriesInputs, video_duration \in DurationInputs :
          /\ detections' = MakeDetections(series)
          /\ frames_data' = MakeFrames(Len(series), [start |-> 0, step |-> 1])
          /\ args' = [video_duration |-> video_duration]
    /\ op' = "calculate_flow_metrics"
    /\ result' = CalculateFlowMetrics(detections', frames_data', args'.video_duration)
    /\ pc' = "returned"
    /\ UNCHANGED <<config, runs, locals, video>>

CallCalculateComprehensiveHospitalMetrics ==
    /\ pc = "idle"
    /\ \E load \in StaffingLoads, nurses \in NurseContexts, beds \in BedContexts,
          video_duration_minutes \in DurationInputs :
          \E rounding \in
                RoundingsOf(EstimateArrivalRateFromCrowd(load[1], Ceil(load[1]) + 1,
                                                         video_duration_minutes),
                            EstimateServiceRateFromContext(nurses.available_nurses,
                                                           load[2])) :
             args' = [average_person_count |-> load[1],
                      peak_person_count |-> Ceil(load[1]) + 1,
                      video_duration_minutes |-> video_duration_minutes,
                      hospital_context |-> MakeHospitalContext(nurses, beds, load[2]),
                      rounding |-> rounding]
    /\ op' = "calculate_comprehensive_hospital_metrics"
    /\ result' = CalculateComprehensiveHospitalMetrics(args'.average_person_count,
                                                       args'.peak_person_count,
                                                       args'.video_duration_minutes,
                                                       args'.hospital_context,
                                                       args'.rounding)
    /\ pc' = "returned"
    /\ UNCHANGED <<config, detections, frames_data, runs, locals, video>>

\* The caller takes the returned value; the instance keeps nothing of the call.
TakeResult ==
    /\ pc = "returned"
    /\ pc' = "idle"
    /\ op' = "none"
    /\ detections' = <<>>
    /\ frames_data' = <<>>
    /\ args' = NoArgs
    /\ result' = None
    /\ UNCHANGED <<config, runs, locals, video>>

Next ==
    \/ CallDetectBottlenecks
    \/ CallCreateVisualizationData
    \/ CallCalculateCrowdDensity
    \/ CallErlangC
    \/ CallCalculateCapacityScore
    \/ CallAnalyzeCrowdDistribution
    \/ CallCalculateBedDemandForecasting
    \/ CallCalculateOptimalStaffing
    \/ CallCalculateFlowMetrics
    \/ CallCalculateComprehensiveHospitalMetrics
    \/ TakeResult

Spec == Init /\ [][Next]_vars

\* --------------------------------------- detect_bottlenecks, by steps

\* Variant: the loop variables live on the shared instance, one copy for all
\* invocations.
LocalsOfShared(r) == 1

\* bottleneck_periods and current_bottleneck are local variables of the
\* invocation: each invocation has its own.
LocalsOf(r) == r

\* Variant: the loop variables are not reset on entry.
InitialLocalsKept(previous) == previous

\* On entry the loop variables are set anew, whatever an earlier invocation
\* left behind.
InitialLocals(previous) == EmptyLocals

\* The dict returned after the loop.
BottleneckReport(cfg, dets, acc) ==
    LET person_counts == PersonCounts(dets)
        avg_count == Mean(person_counts)
        threshold == FMul(avg_count, cfg.bottleneck_threshold_multiplier)
        periods == FlushBottleneck(acc.bottleneck_periods, acc.current_bottleneck,
                                   avg_count, cfg.min_bottleneck_duration)
    IN  [bottlenecks_detected |-> Len(periods),
         bottleneck_periods |-> periods,
         total_bottleneck_duration_seconds |-> SumDurations(periods),
         threshold_used |-> Round1(threshold),
         average_person_count |-> Round1(avg_count),
         max_person_count |-> MaxSeq(person_counts)]

callVars == <<pc, op, detections, frames_data, args, result>>

\* Invocation r is entered: the early return, or the statistics and the reset
\* of the loop variables.
StartRun(r) ==
    /\ runs[r].pc = "idle"
    /\ \E series \in RunSeries, sched \in RunSchedules :
          LET dets == MakeDetections(series)
              frames == MakeFrames(Len(series), sched)
              given == [config |-> config, detections |-> dets, frames_data |-> frames]
          IN  IF dets = <<>> \/ frames = <<>>
              THEN /\ runs' = [runs EXCEPT ![r] =
                                  [pc |-> "done", detections |-> dets,
                                   frames_data |-> frames, given |-> given, k |-> 0,
                                   result |-> [bottlenecks_detected |-> 0,
                                               bottleneck_periods |-> <<>>,
                                               total_bottleneck_duration |-> 0]]]
                   /\ UNCHANGED locals
              ELSE /\ runs' = [runs EXCEPT ![r] =
                                  [pc |-> "running", detections |-> dets,
                                   frames_data |-> frames, given |-> given, k |-> 0,
                                   result |-> None]]
                   /\ locals' = [locals EXCEPT ![LocalsOf(r)] = InitialLocals(@)]
    /\ UNCHANGED <<config, video, callVars>>

\* One iteration of the loop of invocation r.
StepRun(r) ==
    /\ runs[r].pc = "running"
    /\ runs[r].k < Min(Len(runs[r].detections), Len(runs[r].frames_data))
    /\ locals' = [locals EXCEPT ![LocalsOf(r)] =
                     BottleneckStep(@, runs[r].detections[runs[r].k + 1],
                                    runs[r].frames_data[runs[r].k + 1],
                                    Mean(PersonCounts(runs[r].detections)), config)]
    /\ runs' = [runs EXCEPT ![r].k = @ + 1]
    /\ UNCHANGED <<config, video, callVars>>

\* The loop of invocation r is over: the open period is handled and the dict
\* is returned.
FinishRun(r) ==
    /\ runs[r].pc = "running"
    /\ runs[r].k = Min(Len(runs[r].detections), Len(runs[r].frames_data))
    /\ runs' = [runs EXCEPT ![r].pc = "done",
                            ![r].result = BottleneckReport(config, runs[r].detections,
                                                           locals[LocalsOf(r)])]
    /\ UNCHANGED <<config, video, callVars, locals>>

\* The caller of invocation r takes its result.
TakeRunResult(r) ==
    /\ runs[r].pc = "done"
    /\ runs' = [runs EXCEPT ![r] = IdleRun]
    /\ UNCHANGED <<config, video, callVars, locals>>

NextRuns ==
    \E r \in RunIds :
        \/ StartRun(r)
        \/ StepRun(r)
        \/ FinishRun(r)
        \/ TakeRunResult(r)

\* Invocations of detect_bottlenecks on one instance, interleaved step by step.
SpecRuns == Init /\ [][NextRuns]_vars

\* --------------------------------------------- analyze_video, followed
\* step by step

\* analyze_video is entered: the callbacks 0 and 10 around the metadata, and
\* the capture is opened by extract_frames.
StartVideo ==
    /\ video.pc = "idle"
    /\ \E total_frames \in 0..MaxFrames, frame_sample_rate \in {1, 2, 5, DefaultFrameSampleRate},
          scene \in {"empty", "surge", "visit", "steady"}, enable_ai_insights \in BOOLEAN :
          video' = [IdleVideo EXCEPT !.pc = "extracting",
                                     !.total_frames = total_frames,
                                     !.frame_sample_rate = frame_sample_rate,
                                     !.scene = scene,
                                     !.enable_ai_insights = enable_ai_insights,
                                     !.progress = <<0, 10>>]
    /\ UNCHANGED <<config, callVars, runs, locals>>

\* One iteration of the loop of extract_frames: a frame is read and, when it
\* is a sampled one, handed to frame_progress, whose division by a total of
\* 0 ends the analysis in the handler of analyze_video. The videos analysed
\* have as many frames per second as the sample rate, so that the timestamp
\* frame_idx / fps of a processed frame is a whole number of seconds.
ReadFrame ==
    /\ video.pc = "extracting"
    /\ video.frame_idx < video.total_frames
    /\ LET total == video.total_frames \div video.frame_sample_rate
           current == video.processed_count + 1
           frame_data == [frame_number |-> video.frame_idx,
                          timestamp |-> video.frame_idx \div video.frame_sample_rate]
       IN  IF video.frame_idx % video.frame_sample_rate # 0
           THEN video' = [video EXCEPT !.frame_idx = @ + 1]
           ELSE IF total = 0
           THEN video' = [video EXCEPT !.pc = "done",
                                       !.processed_count = current,
                                       !.frames = Append(@, frame_data),
                                       !.results = FailedResults("division by zero")]
           ELSE video' = [video EXCEPT !.frame_idx = @ + 1,
                                       !.processed_count = current,
                                       !.frames = Append(@, frame_data),
                                       !.progress = Append(@, ExtractionProgress(current, total))]
    /\ UNCHANGED <<config, callVars, runs, locals>>

\* The capture has no further frame: without frames the analysis fails,
\* otherwise the callback 50 and the detection loop is entered.
EndExtraction ==
    /\ video.pc = "extracting"
    /\ video.frame_idx = video.total_frames
    /\ video' = IF video.frames = <<>>
                THEN [video EXCEPT !.pc = "done",
                                   !.results = FailedResults("No frames extracted from video")]
                ELSE [video EXCEPT !.pc = "detecting", !.idx = 0,
                                   !.progress = Append(@, 50)]
    /\ UNCHANGED <<config, callVars, runs, locals>>

\* One iteration of the loop of _detect_people_in_frames.
DetectFrame ==
    /\ video.pc = "detecting"
    /\ video.idx < Len(video.frames)
    /\ video' = [video EXCEPT
                     !.detections = Append(@, DetectPersons(video.scene, video.idx + 1)),
                     !.progress = IF video.idx % 10 = 0 \/ video.idx = Len(video.frames) - 1
                                  THEN Append(@, DetectionProgress(video.idx, Len(video.frames)))
                                  ELSE @,
                     !.idx = @ + 1]
    /\ UNCHANGED <<config, callVars, runs, locals>>

\* The rest of analyze_video: the callback 90, the statistics and insights,
\* the callback 92, the enhanced analytics, the callback 95 when AI insights
\* are enabled, the callback 100.
CompileResults ==
    /\ video.pc = "detecting"
    /\ video.idx = Len(video.frames)
    /\ video' = [video EXCEPT
                     !.pc = "done",
                     !.progress = @ \o <<90, 92>>
                                    \o (IF video.enable_ai_insights THEN <<95>> ELSE <<>>)
                                    \o <<100>>,
                     !.results = CompletedResults(video.detections, video.frames,
                                                  VideoMetadata(video.total_frames,
                                                                video.frame_sample_rate))]
    /\ UNCHANGED <<config, callVars, runs, locals>>

\* The caller takes the results.
TakeVideoResult ==
    /\ video.pc = "done"
    /\ video' = IdleVideo
    /\ UNCHANGED <<config, callVars, runs, locals>>

NextVideo ==
    \/ StartVideo
    \/ ReadFrame
    \/ EndExtraction
    \/ DetectFrame
    \/ CompileResults
    \/ TakeVideoResult

\* One analyze_video run after another, each followed step by step.
SpecVideo == Init /\ [][NextVideo]_vars

Returned(o) == pc = "returned" /\ op = o

\* ------------------------------------------------ detect_bottlenecks:
\* properties

BottleneckReturned == Returned("detect_bottlenecks")

SeriesOf(dets) == [i \in 1..Len(dets) |-> dets[i].person_count]

\* Sample i is at or above the threshold, series mean x multiplier.
AtOrAbove(i) ==
    LET counts == SeriesOf(detections)
        m == config.bottleneck_threshold_multiplier
    IN  counts[i] * Len(counts) * m.den >= SumSeq(counts) * m.num

\* <<a, b>>: samples a..b are a maximal run of samples at or above the threshold.
MaximalRuns ==
    LET n == Len(detections)
    IN  {r \in (1..n) \X (1..n) :
            /\ r[1] <= r[2]
            /\ \A i \in r[1]..r[2] : AtOrAbove(i)
            /\ r[1] = 1 \/ ~AtOrAbove(r[1] - 1)
            /\ r[2] = n \/ ~AtOrAbove(r[2] + 1)}

LongRuns == {r \in MaximalRuns : r[2] - r[1] + 1 >= config.min_bottleneck_duration}

RunPeak(r) ==
    CHOOSE m \in {detections[i].person_count : i \in r[1]..r[2]} :
        \A i \in r[1]..r[2] : detections[i].person_count <= m

\* C1: no period of bottleneck_periods has frame_count < min_bottleneck_duration,
\* whether it was closed by a below-threshold sample or was still open at the
\* end of the series.
C1_NoShortPeriod ==
    BottleneckReturned =>
        \A k \in 1..Len(result.bottleneck_periods) :
            result.bottleneck_periods[k].frame_count >= config.min_bottleneck_duration

\* C1 witness: with min_bottleneck_duration >= 2, a run shorter than the minimum
\* was closed by a below-threshold sample and dropped, and a period that was
\* still open at the last sample was emitted.
C1_Witness ==
    /\ BottleneckReturned
    /\ config.min_bottleneck_duration >= 2
    /\ Len(detections) = Len(frames_data)
    /\ MaximalRuns # LongRuns
    /\ \E r \in LongRuns : r[2] = Len(detections)
    /\ \E r \in MaximalRuns \ LongRuns : r[2] < Len(detections)
    /\ result.bottlenecks_detected >= 1

UniformSeries ==
    /\ detections # <<>>
    /\ \A i \in 1..Len(detections) :
          detections[i].person_count = detections[1].person_count

ScenarioB ==
    /\ SeriesOf(detections) = <<5, 5, 20, 25, 20, 5, 5>>
    /\ Len(frames_data) = 7
    /\ config.bottleneck_threshold_multiplier = Frac(3, 2)
    /\ config.min_bottleneck_duration = 2

\* C4: [5,5,20,25,20,5,5] with min_bottleneck_duration 2 and multiplier 1.5 has
\* exactly one period, over the samples 20,25,20 (the third to the fifth), with
\* frame_count 3, peak 25 and severity Critical (5).
C4_ScenarioB ==
    (BottleneckReturned /\ ScenarioB) =>
        /\ result.bottlenecks_detected = 1
        /\ Len(result.bottleneck_periods) = 1
        /\ result.bottleneck_periods[1].frame_count = 3
        /\ result.bottleneck_periods[1].peak_person_count = 25
        /\ result.bottleneck_periods[1].start_time = FormatTime(frames_data[3].timestamp)
        /\ result.bottleneck_periods[1].end_time = FormatTime(frames_data[5].timestamp)
        /\ result.bottleneck_periods[1].severity = "Critical"
        /\ result.bottleneck_periods[1].severity_score = 5

\* C4 witness: Scenario B has been analysed.
C4_Witness == BottleneckReturned /\ ScenarioB /\ result.max_person_count = 25

\* -------------------------------------------------- erlang_c_formula:
\* properties

ErlangReturned == Returned("erlang_c_formula")

\* The call is in the stable regime: service_rate > 0, num_agents >= 1 and
\* arrival_rate / service_rate < num_agents.
StableRegime ==
    /\ args.service_rate.num > 0
    /\ args.num_agents >= 1
    /\ args.arrival_rate.num * args.service_rate.den
           < args.num_agents * args.service_rate.num * args.arrival_rate.den

\* C5: erlang_c_formula returns exactly 1.0, without evaluating the
\* factorial/power formula, whenever num_agents <= 0, or service_rate <= 0, or
\* arrival_rate / service_rate >= num_agents.
C5_SaturationSentinel ==
    (ErlangReturned /\ ~StableRegime) =>
        /\ result.value = [num |-> 1, den |-> 1]
        /\ ~result.formula_evaluated

\* C5 witness: lambda = 30, mu = 6, c = 5, where the intensity equals the agent
\* count, has returned.
C5_Witness ==
    /\ ErlangReturned
    /\ args.arrival_rate = FromInt(30)
    /\ args.service_rate = FromInt(6)
    /\ args.num_agents = 5
    /\ result.value.num = result.value.den

C7_CapacityScoreInRange ==
    Returned("_calculate_capacity_score") =>
        /\ FLe(FromInt(0), result.score)
        /\ FLe(result.score, FromInt(100))
        /\ 0 <= result.capacity_score
        /\ result.capacity_score <= 1000

\* C7 witness: the score was computed for no available nurse against a
\* recommendation of 100 nurses.
C7_Witness ==
    /\ Returned("_calculate_capacity_score")
    /\ args.available_nurses = 0
    /\ args.recommended_nurses = 100
    /\ args.available_beds > args.estimated_beds_needed
    /\ result.capacity_score = 500

\* -------------------------------------- create_visualization_data:
\* properties

VisualizationReturned == Returned("create_visualization_data")

RECURSIVE SumSamples(_)
SumSamples(chart_data) ==
    IF chart_data = <<>> THEN 0
    ELSE chart_data[1].samples + SumSamples(Tail(chart_data))

\* C8: for a non-empty sample sequence the samples fields of the buckets of
\* chart_data add up to the number of input samples (the pairs of detections and
\* frames_data; all of detections when the two lists are equally long), and the
\* last bucket is emitted.
C8_BucketSamplesSum ==
    (VisualizationReturned /\ detections # <<>> /\ frames_data # <<>>) =>
        /\ SumSamples(result.chart_data) = Min(Len(detections), Len(frames_data))
        /\ Len(detections) = Len(frames_data) =>
              SumSamples(result.chart_data) = result.summary.total_samples
        /\ result.chart_data # <<>>
        /\ result.chart_data[Len(result.chart_data)].timestamp
               <= frames_data[Min(Len(detections), Len(frames_data))].timestamp
        /\ frames_data[Min(Len(detections), Len(frames_data))].timestamp
               < result.chart_data[Len(result.chart_data)].timestamp
                     + result.interval_seconds

\* C8 witness: a series was bucketed into several buckets of which the last is
\* partial (it holds fewer samples than the first).
C8_Witness ==
    /\ VisualizationReturned
    /\ Len(detections) = Len(frames_data)
    /\ Len(result.chart_data) >= 2
    /\ result.chart_data[Len(result.chart_data)].samples < result.chart_data[1].samples

\* ---------------------------------------- calculate_crowd_density:
\* properties

DensityReturned == Returned("calculate_crowd_density")

\* The tier of the density p / a (a > 0) by the documented breakpoints.
TierOf(p, a) ==
    IF 10 * p < a THEN 1
    ELSE IF 10 * p < 2 * a THEN 2
    ELSE IF 10 * p < 4 * a THEN 3
    ELSE IF 10 * p < 6 * a THEN 4
    ELSE 5

TierName(t) ==
    CASE t = 1 -> "Very Low" [] t = 2 -> "Low" [] t = 3 -> "Moderate"
      [] t = 4 -> "High" [] t = 5 -> "Very High"

\* C9: a density at a breakpoint belongs to the higher tier (Very Low below 0.1,
\* Low from 0.1, Moderate from 0.2, High from 0.4, Very High from 0.6), the
\* severity score does not decrease with person_count for a fixed area, and an
\* area <= 0 gives density 0, Very Low.
C9_DensityTiers ==
    DensityReturned =>
        /\ args.area_sqm > 0 =>
              /\ result.severity_score = TierOf(args.person_count, args.area_sqm)
              /\ result.density_level = TierName(TierOf(args.person_count, args.area_sqm))
        /\ args.area_sqm <= 0 =>
              /\ result.density_per_sqm = 0
              /\ result.severity_score = 1
              /\ result.density_level = "Very Low"
        /\ \A q \in DensityCounts :
              q <= args.person_count =>
                  CalculateCrowdDensity(q, args.area_sqm).severity_score
                      <= result.severity_score

\* C9 witness: 10 persons on 100 sqm, a density of exactly 0.1, were classified
\* Low.
C9_Witness ==
    /\ DensityReturned
    /\ args.person_count = 10
    /\ args.area_sqm = 100
    /\ result.density_per_sqm = 100
    /\ result.density_level = "Low"

\* ------------------------------------ detect_bottlenecks: empty series

\* C10: on an empty series detect_bottlenecks returns zero periods and a result
\* in which the threshold used is defined and equal to 0.
C10_EmptySeriesThreshold ==
    (BottleneckReturned /\ detections = <<>>) =>
        /\ result.bottlenecks_detected = 0
        /\ result.bottleneck_periods = <<>>
        /\ "threshold_used" \in DOMAIN result
        /\ result.threshold_used = 0

\* ------------------------------------------------ configuration

\* C11: a configuration with a negative min_bottleneck_duration or a
\* bottleneck_threshold_multiplier that is not > 1 is rejected at construction,
\* so no analysis operation ever returns under such a configuration.
C11_ConfigValidatedEagerly ==
    pc = "returned" =>
        /\ config.min_bottleneck_duration >= 0
        /\ FLt(FromInt(1), config.bottleneck_threshold_multiplier)

\* ---------------------------------------- analyze_crowd_distribution:
\* properties

DistributionReturned == Returned("analyze_crowd_distribution")

\* The det entries given to the call, and those among them whose box has four
\* coordinates with x2 > x1 and y2 > y1.
GivenDets == AllBoxes(detections)

IsValidBox(det) ==
    /\ "bbox" \in DOMAIN det
    /\ Len(det.bbox) = 4
    /\ det.bbox[3] > det.bbox[1]
    /\ det.bbox[4] > det.bbox[2]

ValidDetCount == Cardinality({i \in 1..Len(GivenDets) : IsValidBox(GivenDets[i])})

\* C12: a box with x2 <= x1 or y2 <= y1 is skipped: it is counted in no zone's
\* detection_count and not in total_detections_analyzed, which therefore count
\* exactly the remaining (valid) boxes.
C12_MalformedBoxSkipped ==
    (DistributionReturned /\ frames_data # <<>> /\ detections # <<>>
        /\ "raised" \notin DOMAIN result) =>
        /\ result.total_detections_analyzed = ValidDetCount
        /\ SumSeq([i \in 1..Len(result.zones) |-> result.zones[i].detection_count])
               = ValidDetCount

\* C13: samples that hold no valid detection at all (an empty sample list, or
\* samples whose detection lists are empty or missing) give the "No data"
\* result with no zones and no hotspots.
C13_NoValidDetectionsNoData ==
    (DistributionReturned /\ ValidDetCount = 0) =>
        /\ "raised" \notin DOMAIN result
        /\ result.distribution_pattern = "No data"
        /\ result.zones = <<>>
        /\ result.hotspots = <<>>

\* ---------------------------------------- detect_bottlenecks: severity

\* The grade of a peak against the baseline (the mean of all counts), from the
\* table Critical >= 2.0, High >= 1.75, Moderate >= 1.5, Low otherwise, with
\* ratio 1 for a baseline of 0.
GradeOfPeak(peak) ==
    LET total == SumSeq(SeriesOf(detections))
        n == Len(detections)
    IN  IF total = 0 THEN 2
        ELSE IF peak * n >= 2 * total THEN 5
        ELSE IF 4 * peak * n >= 7 * total THEN 4
        ELSE IF 2 * peak * n >= 3 * total THEN 3
        ELSE 2

GradeName(score) ==
    CASE score = 5 -> "Critical" [] score = 4 -> "High"
      [] score = 3 -> "Moderate" [] OTHER -> "Low"

\* C14: within one result the severity follows the peak/baseline ratio: every
\* period is graded by the table, and a period whose peak is at least another
\* period's peak has at least that period's severity_score.
C14_SeverityMonotoneInPeak ==
    BottleneckReturned =>
        LET ps == result.bottleneck_periods
        IN  /\ \A i \in 1..Len(ps) :
                 /\ ps[i].severity_score = GradeOfPeak(ps[i].peak_person_count)
                 /\ ps[i].severity = GradeName(ps[i].severity_score)
            /\ \A i, j \in 1..Len(ps) :
                 ps[i].peak_person_count >= ps[j].peak_person_count
                     => ps[i].severity_score >= ps[j].severity_score

\* Two periods of one result with different peaks and different grades
\* (Critical and Moderate).
C14_Witness ==
    /\ BottleneckReturned
    /\ \E i, j \in 1..Len(result.bottleneck_periods) :
          /\ result.bottleneck_periods[i].peak_person_count
                 > result.bottleneck_periods[j].peak_person_count
          /\ result.bottleneck_periods[i].severity_score = 5
          /\ result.bottleneck_periods[j].severity_score = 3

\* ------------------------------------------ detect_bottlenecks: time

AscendingTimestamps ==
    \A i \in 1..(Len(frames_data) - 1) :
        frames_data[i].timestamp <= frames_data[i + 1].timestamp

\* "MM:SS" values compared as times.
TimeLe(a, b) == a.minutes < b.minutes \/ (a.minutes = b.minutes /\ a.secs <= b.secs)

\* Seconds of a "MM:SS" value.
SecondsOf(t) == 60 * t.minutes + t.secs

\* C15: for samples in ascending timestamp order every period ends no earlier
\* than it starts (duration_seconds >= 0), a period ends before the next one
\* starts, and total_bottleneck_duration_seconds is the sum of the periods'
\* duration_seconds, which is the time from their starts to their ends
\* (durations in tenths of a second).
C15_PeriodsOrderedAndSummed ==
    (BottleneckReturned /\ detections # <<>> /\ frames_data # <<>>
        /\ AscendingTimestamps) =>
        LET ps == result.bottleneck_periods
        IN  /\ \A i \in 1..Len(ps) :
                 /\ ps[i].duration_seconds >= 0
                 /\ TimeLe(ps[i].start_time, ps[i].end_time)
            /\ \A i \in 1..(Len(ps) - 1) :
                 /\ TimeLe(ps[i].end_time, ps[i + 1].start_time)
                 /\ ps[i].end_time # ps[i + 1].start_time
            /\ result.total_bottleneck_duration_seconds
                  = SumSeq([i \in 1..Len(ps) |-> ps[i].duration_seconds])
            /\ result.total_bottleneck_duration_seconds
                  = 10 * SumSeq([i \in 1..Len(ps) |->
                                   SecondsOf(ps[i].end_time) - SecondsOf(ps[i].start_time)])

\* Two periods, each lasting more than one sample, the first across a minute
\* boundary.
C15_Witness ==
    /\ BottleneckReturned
    /\ Len(result.bottleneck_periods) = 2
    /\ \A i \in 1..2 : result.bottleneck_periods[i].duration_seconds > 0
    /\ result.bottleneck_periods[1].start_time.minutes
           < result.bottleneck_periods[1].end_time.minutes
    /\ result.total_bottleneck_duration_seconds
           > result.bottleneck_periods[1].duration_seconds

\* ---------------------------------- calculate_bed_demand_forecasting:
\* properties

BedForecastReturned == Returned("calculate_bed_demand_forecasting")

\* max(0, waiting patients - available beds), exactly.
Shortage == FMax(FromInt(0), FSub(args.average_person_count, FromInt(args.available_beds)))

ScenarioD ==
    /\ args.occupied_beds = 42
    /\ args.total_beds = 50
    /\ args.available_beds = 8
    /\ args.average_person_count = FromInt(10)

ModerateOrHigher == {UrgencyModerate, UrgencyHigh, UrgencyCritical}

\* C16 as stated: additional_capacity_needed is max(0, waiting patients -
\* available beds), never negative; in the scenario 42 occupied of 50, 8
\* available, 10 waiting it is 2 with an urgency of Moderate or higher.
C16_ShortageExact ==
    BedForecastReturned =>
        /\ FromInt(result.additional_capacity_needed) = Shortage
        /\ result.additional_capacity_needed >= 0
        /\ ScenarioD => /\ result.additional_capacity_needed = 2
                        /\ result.urgency_level \in ModerateOrHigher

\* C16 amended: additional_capacity_needed is max(0, waiting patients -
\* available beds) rounded to the nearest whole number (a half goes to the even
\* neighbour), never negative; in the scenario it is 2 with an urgency of
\* Moderate or higher.
C16_ShortageRounded ==
    BedForecastReturned =>
        /\ result.additional_capacity_needed = Round0(Shortage)
        /\ LET d == FSub(FromInt(result.additional_capacity_needed), Shortage)
           IN  FLe(Frac(0 - 1, 2), d) /\ FLe(d, Frac(1, 2))
        /\ result.additional_capacity_needed >= 0
        /\ ScenarioD => /\ result.additional_capacity_needed = 2
                        /\ result.urgency_level \in ModerateOrHigher

\* The documented scenario was forecast, with a shortage of 2 beds.
C16_Witness ==
    /\ BedForecastReturned
    /\ ScenarioD
    /\ result.additional_capacity_needed = 2
    /\ result.urgency_level = UrgencyCritical

\* ------------------------------------- calculate_optimal_staffing:
\* properties

StaffingReturned == Returned("calculate_optimal_staffing")

\* The estimated rates of the call and a = arrival rate / service rate.
ArrivalOfCall ==
    EstimateArrivalRateFromCrowd(args.average_person_count, args.peak_person_count,
                                 args.video_duration_minutes)

ServiceOfCall == EstimateServiceRateFromContext(args.available_nurses, args.area_sqm)

OfferedLoad == FDiv(ArrivalOfCall, ServiceOfCall)

CandidateWindow == Max(1, Ceil(OfferedLoad))..(Ceil(OfferedLoad) + 5)

\* Candidates whose average wait is within the target.
QualifyingCandidates ==
    {c \in CandidateWindow :
        WaitWithinTarget(CalculateAverageWaitTime(ArrivalOfCall, ServiceOfCall, c,
                                                  args.rounding),
                         FromInt(args.target_wait_time_minutes))}

\* The candidates scanned are exactly max(1, ceil(a)) .. ceil(a) + 5.
WindowScanned ==
    StaffingReturned => DOMAIN result.staffing_analysis = CandidateWindow

\* C19: the search scans exactly the candidates max(1, ceil(a)) .. ceil(a) + 5
\* and, when some candidate's average wait is within the target,
\* recommended_nurses is the smallest such candidate.
C19_SmallestQualifyingCandidate ==
    StaffingReturned =>
        /\ DOMAIN result.staffing_analysis = CandidateWindow
        /\ QualifyingCandidates # {} =>
              /\ result.recommended_nurses \in QualifyingCandidates
              /\ \A c \in QualifyingCandidates : result.recommended_nurses <= c

\* C20: when no candidate of the window has an average wait within the target,
\* recommended_nurses is available_nurses, additional_nurses_needed is 0 and
\* predicted_wait_time_minutes is the marker "High" instead of a number.
C20_FallbackWhenNoneQualifies ==
    (StaffingReturned /\ QualifyingCandidates = {}) =>
        /\ result.recommended_nurses = args.available_nurses
        /\ result.additional_nurses_needed = 0
        /\ result.predicted_wait_time_minutes = Marker("High")

\* A search with arrivals and a target that no candidate meets, for a context
\* with fewer nurses available than on duty, although some candidates are stable.
C20_Witness ==
    /\ StaffingReturned
    /\ QualifyingCandidates = {}
    /\ ArrivalOfCall.num > 0
    /\ args.available_nurses < args.current_nurses
    /\ \E c \in CandidateWindow : result.staffing_analysis[c].wait_time_minutes # Marker("Unstable")
    /\ result.recommended_nurses = args.available_nurses

\* ---------------------------------- detect_bottlenecks: invocations

SameInputs(r, q) ==
    /\ runs[r].given.detections = runs[q].given.detections
    /\ runs[r].given.frames_data = runs[q].given.frames_data

\* C17: two invocations of detect_bottlenecks with the same samples under the
\* same configuration return identical results, whatever the order of their
\* steps and whatever other invocations the instance served before or between.
C17_SameInputsSameResult ==
    \A r, q \in RunIds :
        (runs[r].pc = "done" /\ runs[q].pc = "done" /\ SameInputs(r, q))
            => runs[r].result = runs[q].result

\* Two invocations over the same samples have both returned a result with
\* periods.
C17_Witness ==
    /\ runs[1].pc = "done"
    /\ runs[2].pc = "done"
    /\ SameInputs(1, 2)
    /\ runs[1].result.bottlenecks_detected = 2

ErlangB ==
    LET a == FDiv(args.arrival_rate, args.service_rate)
    IN  FDiv(ErlangTerm(a, args.num_agents), ErlangSum(a, args.num_agents))

\* B / (B x (1 - a/c) + (1 - B)), clamped to [0,1].
StatedProbability ==
    LET a == FDiv(args.arrival_rate, args.service_rate)
        b == ErlangB
        pw == FDiv(b, FAdd(FMul(b, FSub(FromInt(1), FDiv(a, FromInt(args.num_agents)))),
                           FSub(FromInt(1), b)))
    IN  FMin(FMax(pw, FromInt(0)), FromInt(1))

\* C21: in the stable regime erlang_c_formula returns
\* Pw = B / (B x (1 - a/c) + (1 - B)) clamped to [0,1], with
\* B = (a^c / c!) / sum_{n=0..c} a^n / n!.
C21_StatedErlangFormula ==
    (ErlangReturned /\ StableRegime) => result.value = StatedProbability

\* ------------------------------ calculate_average_wait_time and the
\* staffing table: properties

\* The candidates whose entry of the staffing table holds the marker.
UnstableCandidates ==
    {c \in DOMAIN result.staffing_analysis :
        result.staffing_analysis[c].wait_time_minutes = Marker("Unstable")}

\* The candidates whose average wait is float('inf').
InfiniteWaitCandidates ==
    {c \in DOMAIN result.staffing_analysis :
        CalculateAverageWaitTime(ArrivalOfCall, ServiceOfCall, c, args.rounding) = Inf}

\* C22: in the staffing table a candidate's wait_time_minutes is the marker
\* "Unstable" exactly when its average wait is infinite, which is exactly when
\* arrival_rate >= num_agents * service_rate (or a rate or count is not
\* positive), and the probability_waiting of such a candidate is 1.0.
C22_UnstableHasProbabilityOne ==
    StaffingReturned =>
        /\ UnstableCandidates = InfiniteWaitCandidates
        /\ \A c \in DOMAIN result.staffing_analysis :
              /\ c \in InfiniteWaitCandidates <=>
                    \/ c <= 0
                    \/ ServiceOfCall.num <= 0
                    \/ FLe(FMul(FromInt(c), ServiceOfCall), ArrivalOfCall)
              /\ c \in UnstableCandidates =>
                    result.staffing_analysis[c].probability_waiting = 1000

\* ------------------------- analyze_crowd_distribution: boxes outside
\* the frame

\* floor of the fraction x.
Floor(x) == 0 - Ceil([num |-> 0 - x.num, den |-> x.den])

\* clamp(floor(center / (frame_size / 3)), 0, 2), center = (lo + hi) / 2
ClampedZoneIndex(lo, hi, frame_size) ==
    Max(0, Min(Floor(FDiv(Frac(lo + hi, 2), Frac(frame_size, 3))), 2))

\* The zone <<row, col>> stated for a box.
StatedZoneOf(bbox) ==
    <<ClampedZoneIndex(bbox[2], bbox[4], args.frame_height),
      ClampedZoneIndex(bbox[1], bbox[3], args.frame_width)>>

\* Every det entry given to the call holds a valid box, and there is one.
OnlyValidBoxes ==
    /\ GivenDets # <<>>
    /\ \A i \in 1..Len(GivenDets) : IsValidBox(GivenDets[i])

\* C23: a call whose boxes are all valid (x2 > x1, y2 > y1), wherever their
\* centres lie, does not raise; each box is counted in the zone with column
\* clamp(floor(center_x / (width / 3)), 0, 2) and row
\* clamp(floor(center_y / (height / 3)), 0, 2), and the nine zone counts sum to
\* total_detections_analyzed.
C23_OutOfFrameBoxesClamped ==
    (DistributionReturned /\ frames_data # <<>> /\ OnlyValidBoxes) =>
        /\ "raised" \notin DOMAIN result
        /\ SumSeq([i \in 1..Len(result.zones) |-> result.zones[i].detection_count])
               = result.total_detections_analyzed
        /\ \A i \in 1..Len(result.zones) :
              result.zones[i].detection_count =
                  Cardinality({k \in 1..Len(GivenDets) :
                                  StatedZoneOf(GivenDets[k].bbox) = result.zones[i].zone_id})

\* ------------------------- analyze_crowd_distribution: hotspots

\* The result holds zones (it is neither the "No data" result nor a raise).
HasZones == "zones" \in DOMAIN result /\ result.zones # <<>>

\* The zones whose share of all counted detections is above 15 percent.
ZonesAbove15 ==
    {i \in 1..Len(result.zones) :
        FLt(FromInt(15),
            ZonePercentage(result.zones[i].detection_count,
                           result.total_detections_analyzed))}

\* C24: in a result with data, hotspots holds exactly the zones whose share of
\* all counted detections is above 15 percent, in descending order of
\* percentage, and distribution_pattern is Uniform for no hotspot, Concentrated
\* for one, Bi-modal for two and Distributed for three or more.
C24_HotspotsAreSharesAbove15 ==
    (DistributionReturned /\ HasZones) =>
        /\ {result.hotspots[k] : k \in 1..Len(result.hotspots)}
               = {result.zones[i] : i \in ZonesAbove15}
        /\ Len(result.hotspots) = Cardinality(ZonesAbove15)
        /\ \A k \in 1..(Len(result.hotspots) - 1) :
              result.hotspots[k].percentage >= result.hotspots[k + 1].percentage
        /\ result.distribution_pattern =
              CASE Len(result.hotspots) = 0 -> "Uniform"
                [] Len(result.hotspots) = 1 -> "Concentrated"
                [] Len(result.hotspots) = 2 -> "Bi-modal"
                [] OTHER -> "Distributed"

\* ------------------------- create_visualization_data: the buckets

\* The samples the loop pairs up, and their timestamps.
PairedSamples == 1..Min(Len(detections), Len(frames_data))

\* The timestamps given are ascending and not negative.
AscendingFromZero ==
    /\ \A k \in PairedSamples : frames_data[k].timestamp >= 0
    /\ \A k \in PairedSamples :
          k > 1 => frames_data[k - 1].timestamp <= frames_data[k].timestamp

\* The samples whose timestamp lies in [start, start + interval_seconds).
SamplesWithin(start) ==
    {k \in PairedSamples :
        /\ start <= frames_data[k].timestamp
        /\ frames_data[k].timestamp < start + args.interval_seconds}

\* C25: for ascending non-negative timestamps and a positive interval, every
\* bucket of chart_data is non-empty, its timestamp is an integer multiple of
\* the interval, the timestamps are strictly increasing, the first bucket starts
\* at floor(first timestamp / interval) * interval, and the samples counted in
\* a bucket are those with a timestamp in [timestamp, timestamp + interval).
C25_BucketsAlignedToInterval ==
    (VisualizationReturned /\ detections # <<>> /\ frames_data # <<>>
        /\ AscendingFromZero /\ args.interval_seconds > 0) =>
        /\ \A b \in 1..Len(result.chart_data) :
              /\ result.chart_data[b].samples >= 1
              /\ result.chart_data[b].timestamp % args.interval_seconds = 0
              /\ result.chart_data[b].samples
                     = Cardinality(SamplesWithin(result.chart_data[b].timestamp))
              /\ b > 1 => result.chart_data[b - 1].timestamp
                              < result.chart_data[b].timestamp
        /\ result.chart_data[1].timestamp
               = (frames_data[1].timestamp \div args.interval_seconds)
                     * args.interval_seconds
        /\ \A k \in PairedSamples :
              \E b \in 1..Len(result.chart_data) :
                 k \in SamplesWithin(result.chart_data[b].timestamp)

\* Buckets were emitted for a series that starts after zero: the first bucket
\* is not at zero and starts before its first sample, several buckets follow
\* one another, and a bucket holds several samples.
C25_Witness ==
    /\ VisualizationReturned
    /\ AscendingFromZero
    /\ Len(result.chart_data) >= 3
    /\ result.chart_data[1].timestamp > 0
    /\ result.chart_data[1].timestamp < frames_data[1].timestamp
    /\ \E b \in 1..Len(result.chart_data) : result.chart_data[b].samples >= 2

\* ----------------------------------- calculate_flow_metrics: properties

FlowReturned == Returned("calculate_flow_metrics")

GivenCounts == PersonCounts(detections)

\* (last sample - first sample) / (number of samples - 1)
EndToEndSlope ==
    Frac(GivenCounts[Len(GivenCounts)] - GivenCounts[1], Len(GivenCounts) - 1)

\* C26: a series of fewer than 2 samples gives flow_rate 0, trend Stable and
\* variability Low; otherwise the trend is Increasing iff the mean of the first
\* differences, which is (last - first) / (n - 1), is above 0.5, Decreasing iff
\* it is below -0.5 and Stable otherwise; a series with mean 0 has coefficient
\* of variation 0 and variability Low.
C26_TrendFromEndpoints ==
    FlowReturned =>
        /\ Len(detections) < 2 =>
              result = [flow_rate |-> 0, trend |-> "Stable", variability |-> "Low"]
        /\ Len(detections) >= 2 =>
              /\ result.trend = "Increasing" <=> FLt(Frac(1, 2), EndToEndSlope)
              /\ result.trend = "Decreasing" <=> FLt(EndToEndSlope, Frac(0 - 1, 2))
              /\ result.trend \in {"Increasing", "Decreasing", "Stable"}
              /\ result.flow_rate = Round2(EndToEndSlope)
              /\ SumSeq(GivenCounts) = 0 =>
                    /\ result.coefficient_of_variation = Number(0)
                    /\ result.variability = "Low"

\* A series that rises and falls on the way was graded by its end points: the
\* mean change is exactly 0.5 and the trend is Stable.
C26_Witness ==
    /\ FlowReturned
    /\ Len(detections) >= 4
    /\ EndToEndSlope = Frac(1, 2)
    /\ \E i \in 1..(Len(GivenCounts) - 1) : GivenCounts[i + 1] < GivenCounts[i]
    /\ result.trend = "Stable"
    /\ result.variability = "High"

\* ------------------------------- detect_bottlenecks: the lowest grade

\* The sum of the given counts: the series mean is positive iff it is.
CountTotal == SumSeq(PersonCounts(detections))

MultiplierAtLeastModerate ==
    FLe(Frac(3, 2), config.bottleneck_threshold_multiplier)

\* C27: with bottleneck_threshold_multiplier >= 1.5 and a positive series mean
\* every emitted period has peak / mean >= 1.5 and severity_score >= 3; a
\* period is graded "Low" only when the mean is 0 or the multiplier is below
\* 1.5.
C27_NoLowGradeFromModerateMultiplier ==
    BottleneckReturned =>
        LET ps == result.bottleneck_periods
        IN  /\ (MultiplierAtLeastModerate /\ CountTotal > 0) =>
                 \A i \in 1..Len(ps) :
                    /\ 2 * ps[i].peak_person_count * Len(detections) >= 3 * CountTotal
                    /\ ps[i].severity_score >= 3
            /\ \A i \in 1..Len(ps) :
                 ps[i].severity = "Low" =>
                    CountTotal = 0 \/ ~MultiplierAtLeastModerate

\* A period was emitted under the multiplier 1.5 whose peak is exactly 1.5
\* times the positive mean, graded Moderate.
C27_Witness ==
    /\ BottleneckReturned
    /\ config.bottleneck_threshold_multiplier = Frac(3, 2)
    /\ CountTotal > 0
    /\ \E i \in 1..Len(result.bottleneck_periods) :
          /\ 2 * result.bottleneck_periods[i].peak_person_count * Len(detections)
                 = 3 * CountTotal
          /\ result.bottleneck_periods[i].severity_score = 3

\* ---------------- calculate_comprehensive_hospital_metrics: properties

ComprehensiveReturned == Returned("calculate_comprehensive_hospital_metrics")

\* The alerts of the report about the predicted wait.
WaitAlerts ==
    {k \in 1..Len(result.critical_alerts) : result.critical_alerts[k].about = "wait"}

\* C28: in every report staffing_analysis.predicted_wait_time_minutes is either
\* the non-numeric marker or a number of at most 10 minutes, and critical_alerts
\* holds no wait-time alert.
C28_NoWaitAlertInReport ==
    ComprehensiveReturned =>
        LET wait_time == result.staffing_analysis.predicted_wait_time_minutes
        IN  /\ \/ wait_time = Marker("High")
               \/ "value" \in DOMAIN wait_time /\ wait_time.value <= 10 * DefaultTargetWait
            /\ WaitAlerts = {}

\* A report with a numeric predicted wait carries alerts about nurses and about
\* beds and none about the wait.
C28_Witness ==
    /\ ComprehensiveReturned
    /\ "value" \in DOMAIN result.staffing_analysis.predicted_wait_time_minutes
    /\ args.video_duration_minutes > 0
    /\ args.average_person_count.num > 0
    /\ Len(result.critical_alerts) = 2
    /\ WaitAlerts = {}

\* ------------------------------------------------ analyze_video:
\* properties

VideoCompleted == video.pc = "done" /\ video.results.status = "completed"

\* C29: the two bottleneck verdicts of one analyze_video result agree:
\* whenever enhanced_analytics.bottleneck_analysis.bottlenecks_detected is at
\* least 1, insights.bottleneck_detected is true.
C29_BottleneckVerdictsAgree ==
    VideoCompleted =>
        (video.results.enhanced_analytics.bottleneck_analysis.bottlenecks_detected >= 1
            => video.results.insights.bottleneck_detected)

\* The values given to progress_callback so far never step back.
ProgressNonDecreasing ==
    \A i \in 1..(Len(video.progress) - 1) : video.progress[i] <= video.progress[i + 1]

ProgressWithinRange ==
    \A i \in 1..Len(video.progress) : video.progress[i] >= 0 /\ video.progress[i] <= 100

\* The analysis has ended in its exception handler on the division of the
\* progress computation.
FailedOnProgress ==
    video.pc = "done" /\ video.results = FailedResults("division by zero")

\* C30: during one analyze_video run the progress values given to
\* progress_callback are non-decreasing and within [0, 100], for every frame
\* count and frame_sample_rate, and the progress computation never makes the
\* analysis fail.
C30_ProgressMonotoneAndHarmless ==
    /\ ProgressNonDecreasing
    /\ ProgressWithinRange
    /\ ~FailedOnProgress

====
